---- MODULE Spec2Model ----
(***************************************************************************)
(* Session and authorization core of identity-service: the JWT handler     *)
(* (TokenCodec), the token blacklist (RevocationStore), the FastAPI         *)
(* dependencies get_current_user / get_current_superuser /                  *)
(* get_current_rrhh_user (AuthorizationGate), and the login, refresh and    *)
(* logout handlers.                                                         *)
(*                                                                          *)
(* Time is the UTC clock in whole seconds: python-jose stores exp and iat   *)
(* as timegm(...) of the datetime and compares exp with timegm(utcnow()).   *)
(***************************************************************************)
EXTENDS Integers, Sequences, FiniteSets, TLC

VARIABLES
    now,                           \* datetime.utcnow(), whole seconds
    ticks,                         \* how many times the clock has advanced
    secret_key,                    \* JWTHandler.secret_key
    access_token_expire_minutes,   \* JWTHandler.access_token_expire_minutes
    refresh_token_expire_days,     \* JWTHandler.refresh_token_expire_days
    users,                         \* the users table, with each user's roles
    blacklist,                     \* TokenBlacklist._blacklist
    last_cleanup,                  \* TokenBlacklist._last_cleanup
    issued,                        \* the tokens handed out so far
    resp,                          \* the response of the last request or call
    minted,                        \* the last create_*_token call: arguments and token
    lock,                          \* TokenBlacklist._lock: the thread holding it
    frame,                         \* each thread's call of a TokenBlacklist method
    model_set,                     \* the set the completed calls amount to
    calls,                         \* how many TokenBlacklist calls were made
    inflight,                      \* the login request being executed, step by step
    token_blacklist_instance,      \* token_blacklist._token_blacklist_instance
    instances                      \* the TokenBlacklist objects constructed: their _blacklist

\* The settings a JWTHandler is built from.
config == <<secret_key, access_token_expire_minutes, refresh_token_expire_days>>

\* The threads calling the TokenBlacklist directly, and the instances that
\* get_token_blacklist made for them.
workers == <<lock, frame, model_set, calls, token_blacklist_instance, instances>>

vars == <<now, ticks, config, users, blacklist, last_cleanup, issued, resp,
          minted, workers, inflight>>

----------------------------------------------------------------------------
(* Bounds of the model. *)

MaxTicks == 2

MaxIssued == 3

\* How many TokenBlacklist calls the worker threads make in all.
MaxCalls == 4

\* How many tokens one session may hold before it stops refreshing.
MaxHeld == 5

\* How many roles a user is assigned when the resolvers are compared.
MaxRoles == 2

(* Program constants. *)

ACCESS_TOKEN_EXPIRE_MINUTES == 30

REFRESH_TOKEN_EXPIRE_DAYS == 7

SecondsPerMinute == 60

SecondsPerDay == 86400

CleanupIntervalSeconds == 3600

SECRET_KEY == "your-secret-key-change-this-in-production"

----------------------------------------------------------------------------
(* Python values. *)

\* Python's None, as a dict-shaped value so that it compares with payloads.
None == [none |-> TRUE]

\* dict.get(key, default)
Get(d, key, default) == IF key \in DOMAIN d THEN d[key] ELSE default

\* `not payload`: None and the empty dict are both falsy.
Falsy(payload) == payload = None \/ DOMAIN payload = {}

\* The placeholder of a response field that carries no token.
NoToken == [wellformed |-> FALSE, key |-> "", payload |-> [raw |-> ""]]

----------------------------------------------------------------------------
(* TokenCodec: infrastructure/security/jwt_handler.py.  A token string is  *)
(* modelled by what it encodes: whether it parses as header.payload.       *)
(* signature, the key its signature was made with, and its payload.        *)

\* jose.jwt.encode: the payload is serialised to JSON (a list of role codes
\* stays a list, the datetimes exp and iat become whole seconds) and signed.
JwtEncode(payload, key) ==
    [wellformed |-> TRUE, key |-> key, payload |-> payload]

\* jose.jwt.decode: JWTError (here None) on a token that does not parse, on a
\* signature that does not verify under `key`, and on an expired token; jose
\* raises ExpiredSignatureError when exp < now, so a token is still good in
\* the second its exp names.
JwtDecode(token, key, t) ==
    IF ~token.wellformed THEN None
    ELSE IF token.key # key THEN None
    ELSE IF "exp" \in DOMAIN token.payload /\ token.payload.exp < t THEN None
    ELSE token.payload

\* An access token that carries the primary role as its only role code.
create_access_token_primary_only(user_id, username, email, is_superuser, role, roles) ==
    JwtEncode([sub          |-> user_id,
               username     |-> username,
               email        |-> email,
               is_superuser |-> is_superuser,
               role         |-> role,
               roles        |-> <<role>>,
               type         |-> "access",
               exp          |-> now + SecondsPerMinute * access_token_expire_minutes,
               iat          |-> now], secret_key)

create_access_token(user_id, username, email, is_superuser, role, roles) ==
    LET expire == now + SecondsPerMinute * access_token_expire_minutes
        payload == [sub          |-> user_id,
                    username     |-> username,
                    email        |-> email,
                    is_superuser |-> is_superuser,
                    role         |-> role,
                    roles        |-> IF roles = <<>> THEN <<role>> ELSE roles,
                    type         |-> "access",
                    exp          |-> expire,
                    iat          |-> now]
    IN  JwtEncode(payload, secret_key)

create_refresh_token(user_id) ==
    LET expire == now + SecondsPerDay * refresh_token_expire_days
        payload == [sub  |-> user_id,
                    type |-> "refresh",
                    exp  |-> expire,
                    iat  |-> now]
    IN  JwtEncode(payload, secret_key)

\* jwt.decode with the signature and the expiry left unverified.
decode_token_unverified(token) ==
    IF token.wellformed THEN token.payload ELSE None

decode_token(token) == JwtDecode(token, secret_key, now)

verify_token_no_type_check(token, token_type) == decode_token(token)

\* A verify that accepts a token only in the second it was issued in.
verify_token_fresh_only(token, token_type) ==
    LET payload == decode_token(token)
    IN  IF Falsy(payload) THEN None
        ELSE IF Get(payload, "type", "") # token_type THEN None
        ELSE IF Get(payload, "iat", now) # now THEN None
        ELSE payload

verify_token(token, token_type) ==
    LET payload == decode_token(token)
    IN  IF Falsy(payload) THEN None
        ELSE IF Get(payload, "type", "") # token_type THEN None
        ELSE payload

\* jwt_handler.get_token_expiration: datetime.fromtimestamp(exp), the naive
\* local time of the process, utc_offset seconds from UTC. The clock of the
\* model counts from the service's start, far from 1970, so an exp that is
\* present is never the falsy 0.
get_token_expiration(token, utc_offset) ==
    LET payload == decode_token(token)
    IN  IF Falsy(payload) THEN None
        ELSE IF "exp" \notin DOMAIN payload THEN None
        ELSE [naive |-> payload.exp + utc_offset]

\* jwt_handler.is_token_expired: datetime.utcnow() > expiration, the naive
\* UTC time against the naive local time; utcnow() has microseconds, and
\* `late` says that it is past the start of its second.
is_token_expired(token, utc_offset, late) ==
    LET expiration == get_token_expiration(token, utc_offset)
    IN  IF expiration = None THEN TRUE
        ELSE IF late THEN now >= expiration.naive
        ELSE now > expiration.naive

----------------------------------------------------------------------------
(* RevocationStore: infrastructure/security/token_blacklist.py, each       *)
(* method as the whole `with self._lock:` block.                            *)

is_blacklisted(token) == token \in blacklist

size == Cardinality(blacklist)

\* _auto_cleanup: only moves _last_cleanup, it evicts nothing.
auto_cleanup_last ==
    IF now - last_cleanup > CleanupIntervalSeconds THEN now ELSE last_cleanup

\* A logout that ends every session of the token's user.
add_token_set_user_wide(token) ==
    blacklist \cup {token}
        \cup {t \in issued : Get(t.payload, "sub", "") = Get(token.payload, "sub", "")}

\* An add_token that stores nothing.
add_token_set_nothing(token) == blacklist

\* An add_token whose cleanup, when it is due, evicts the tokens whose exp
\* has passed.
add_token_set_evicting(token) ==
    IF now - last_cleanup > CleanupIntervalSeconds
    THEN {t \in blacklist \cup {token} : Get(t.payload, "exp", now) >= now}
    ELSE blacklist \cup {token}

add_token_set(token) == blacklist \cup {token}

\* A removal that empties the store.
remove_token_set_all(token) == {}

remove_token_set(token) == blacklist \ {token}

remove_token_ret(token) == token \in blacklist

----------------------------------------------------------------------------
(* The persistence collaborator: users and the roles assigned to each, in  *)
(* the order role_repository.get_user_roles returns them.                  *)

UserIds == {"u1", "u2", "u3"}

\* Optional[datetime] = None
NoTime == -1

\* passlib's CryptContext: hash(password), and verify(password, hash).
Hash(password) == <<"bcrypt", password>>

\* A verify that accepts every password.
pwd_verify_any(password, hashed) == TRUE

pwd_verify(password, hashed) == hashed = Hash(password)

Role(code, active) == [code |-> code, is_active |-> active]

SeedUsers ==
    [u \in UserIds |->
        [exists          |-> TRUE,
         phone           |-> "3000000000",
         username        |-> CASE u = "u1" -> "jdoe"
                               [] u = "u2" -> "admin"
                               [] OTHER    -> "hr",
         email           |-> CASE u = "u1" -> "jdoe@clinic.test"
                               [] u = "u2" -> "admin@clinic.test"
                               [] OTHER    -> "hr@clinic.test",
         hashed_password |-> Hash("Correct1!"),
         is_active       |-> TRUE,
         is_superuser    |-> (u = "u2"),
         updated_at      |-> 0,
         last_login      |-> NoTime,
         roles           |-> CASE u = "u1" -> <<Role("MEDICO", TRUE), Role("RRHH", TRUE)>>
                               [] u = "u2" -> <<>>
                               [] OTHER    -> <<Role("RRHH", TRUE)>>]]

NoUser == ""

get_by_email(identifier) ==
    IF \E u \in UserIds : users[u].exists /\ users[u].email = identifier
    THEN CHOOSE u \in UserIds : users[u].exists /\ users[u].email = identifier
    ELSE NoUser

\* A lookup by username that finds nobody.
get_by_username_never(identifier) == NoUser

get_by_username(identifier) ==
    IF \E u \in UserIds : users[u].exists /\ users[u].username = identifier
    THEN CHOOSE u \in UserIds : users[u].exists /\ users[u].username = identifier
    ELSE NoUser

\* A lookup that still finds a deleted user's row.
get_by_id_deleted_too(user_id) ==
    IF user_id \in UserIds THEN user_id ELSE NoUser

get_by_id(user_id) ==
    IF user_id \in UserIds /\ users[user_id].exists THEN user_id ELSE NoUser

\* The roles the user was seeded with, whatever is assigned now.
get_user_roles_as_seeded(u) ==
    IF u \in UserIds THEN SeedUsers[u].roles ELSE <<>>

get_user_roles(u) ==
    IF u \in UserIds /\ users[u].exists THEN users[u].roles ELSE <<>>

Codes(rs) == [i \in 1..Len(rs) |-> rs[i].code]

InSeq(x, s) == \E i \in 1..Len(s) : s[i] = x

----------------------------------------------------------------------------
(* RoleResolver as login_user.py writes it. *)

IsActiveRole(r) == r.is_active

\* A resolver that takes the first assigned role, active or not.
login_primary_role_first_assigned(is_superuser, user_roles) ==
    IF is_superuser THEN "RRHH"
    ELSE IF user_roles # <<>> THEN user_roles[1].code ELSE "USER"

login_primary_role(is_superuser, user_roles) ==
    IF is_superuser THEN "RRHH"
    ELSE IF user_roles # <<>>
         THEN LET active_roles == SelectSeq(user_roles, IsActiveRole)
              IN  IF active_roles # <<>> THEN active_roles[1].code ELSE "USER"
         ELSE "USER"

login_role_codes(is_superuser, user_roles) ==
    LET role_codes == Codes(SelectSeq(user_roles, IsActiveRole))
        with_rrhh  == IF is_superuser /\ ~InSeq("RRHH", role_codes)
                      THEN Append(role_codes, "RRHH") ELSE role_codes
    IN  IF with_rrhh = <<>> THEN <<"USER">> ELSE with_rrhh

(* RoleResolver as the refresh route writes it. *)

refresh_primary_role(is_superuser, user_roles) ==
    IF is_superuser THEN "RRHH"
    ELSE IF user_roles # <<>>
         THEN LET active_roles == SelectSeq(user_roles, IsActiveRole)
              IN  IF active_roles # <<>> THEN active_roles[1].code ELSE "USER"
         ELSE "USER"

\* Role codes without the superuser's "RRHH".
refresh_role_codes_assigned_only(is_superuser, user_roles) ==
    LET role_codes == Codes(SelectSeq(user_roles, IsActiveRole))
    IN  IF role_codes = <<>> THEN <<"USER">> ELSE role_codes

refresh_role_codes(is_superuser, user_roles) ==
    LET role_codes == Codes(SelectSeq(user_roles, IsActiveRole))
        with_rrhh  == IF is_superuser /\ ~InSeq("RRHH", role_codes)
                      THEN Append(role_codes, "RRHH") ELSE role_codes
    IN  IF with_rrhh = <<>> THEN <<"USER">> ELSE with_rrhh

(* RoleResolver as _build_user_response_with_roles writes it. *)

build_primary_role(is_superuser, user_roles) ==
    IF is_superuser THEN "RRHH"
    ELSE IF user_roles # <<>>
         THEN LET active_roles == SelectSeq(user_roles, IsActiveRole)
              IN  IF active_roles # <<>> THEN active_roles[1].code ELSE "USER"
         ELSE "USER"

\* Role codes that count the inactive roles too.
build_role_codes_inactive_too(is_superuser, user_roles) ==
    LET role_codes == Codes(user_roles)
        with_rrhh  == IF is_superuser /\ ~InSeq("RRHH", role_codes)
                      THEN Append(role_codes, "RRHH") ELSE role_codes
    IN  IF with_rrhh = <<>> THEN <<"USER">> ELSE with_rrhh

build_role_codes(is_superuser, user_roles) ==
    LET role_codes == Codes(SelectSeq(user_roles, IsActiveRole))
        with_rrhh  == IF is_superuser /\ ~InSeq("RRHH", role_codes)
                      THEN Append(role_codes, "RRHH") ELSE role_codes
    IN  IF with_rrhh = <<>> THEN <<"USER">> ELSE with_rrhh

----------------------------------------------------------------------------
(* AuthorizationGate: infrastructure/api/dependencies.py.  Each dependency *)
(* is the HTTP outcome of a request presenting `token`: 200 with the       *)
(* payload handed to the route, or the HTTPException it raises.            *)

Outcome(status, detail, payload) ==
    [status |-> status, detail |-> detail, payload |-> payload]

get_current_user_verify_first(token) ==
    LET payload == verify_token(token, "access")
    IN  IF Falsy(payload)
        THEN Outcome(401, "Invalid or expired token", None)
        ELSE IF is_blacklisted(token)
        THEN Outcome(401, "Token has been revoked", None)
        ELSE Outcome(200, "", payload)

get_current_user_no_blacklist(token) ==
    LET payload == verify_token(token, "access")
    IN  IF Falsy(payload)
        THEN Outcome(401, "Invalid or expired token", None)
        ELSE Outcome(200, "", payload)

\* A gate that also looks the token's user up and wants it present and
\* active.
get_current_user_live(token) ==
    IF is_blacklisted(token)
    THEN Outcome(401, "Token has been revoked", None)
    ELSE LET payload == verify_token(token, "access")
             user    == get_by_id(Get(payload, "sub", ""))
         IN  IF Falsy(payload)
             THEN Outcome(401, "Invalid or expired token", None)
             ELSE IF user = NoUser \/ ~users[user].is_active
             THEN Outcome(401, "User not found or inactive", None)
             ELSE Outcome(200, "", payload)

get_current_user(token) ==
    IF is_blacklisted(token)
    THEN Outcome(401, "Token has been revoked", None)
    ELSE LET payload == verify_token(token, "access")
         IN  IF Falsy(payload)
             THEN Outcome(401, "Invalid or expired token", None)
             ELSE Outcome(200, "", payload)

get_current_superuser_by_role(token) ==
    LET current_user == get_current_user(token)
    IN  IF current_user.status # 200 THEN current_user
        ELSE IF Get(current_user.payload, "role", "") # "RRHH"
        THEN Outcome(403, "Not enough permissions", None)
        ELSE current_user

get_current_superuser(token) ==
    LET current_user == get_current_user(token)
    IN  IF current_user.status # 200 THEN current_user
        ELSE IF ~Get(current_user.payload, "is_superuser", FALSE)
        THEN Outcome(403, "Not enough permissions", None)
        ELSE current_user

get_current_rrhh_user_by_membership(token) ==
    LET current_user == get_current_user(token)
    IN  IF current_user.status # 200 THEN current_user
        ELSE IF ~InSeq("RRHH", Get(current_user.payload, "roles", <<>>))
        THEN Outcome(403, "Only users with RRHH role can perform this action", None)
        ELSE current_user

get_current_rrhh_user(token) ==
    LET current_user == get_current_user(token)
    IN  IF current_user.status # 200 THEN current_user
        ELSE IF Get(current_user.payload, "role", "") # "RRHH"
        THEN Outcome(403, "Only users with RRHH role can perform this action", None)
        ELSE current_user

----------------------------------------------------------------------------
(* ValidateTokenUseCase.execute: application/use_cases/validate_token.py.  *)

\* A response field left at its default None.
Null == "null"

\* The strings uuid.UUID accepts; every user id is one, and so is the id of
\* a user that does not exist.
UuidStrings == UserIds \cup {"u9"}

\* UUID(user_id) raises ValueError on any other string.
UuidRaises(user_id) == user_id \notin UuidStrings

\* TokenValidationResponse
TokenValidation(valid, user_id, username, email, is_superuser, message) ==
    [valid        |-> valid,
     user_id      |-> user_id,
     username     |-> username,
     email        |-> email,
     is_superuser |-> is_superuser,
     message      |-> message]

\* A validation that reads the claims without verifying the token.
validate_unverified(token) ==
    LET payload == decode_token_unverified(token)
    IN  IF Falsy(payload) \/ Get(payload, "sub", "") = ""
        THEN TokenValidation(FALSE, Null, Null, Null, FALSE, "Invalid or expired token")
        ELSE TokenValidation(TRUE, Get(payload, "sub", ""), Get(payload, "username", Null),
                             Get(payload, "email", Null),
                             Get(payload, "is_superuser", FALSE), "Token is valid")

\* A validation that wants an access token that is not in the blacklist.
validate_unrevoked_access(token) ==
    LET payload == verify_token(token, "access")
    IN  IF Falsy(payload) \/ is_blacklisted(token) \/ Get(payload, "sub", "") = ""
        THEN TokenValidation(FALSE, Null, Null, Null, FALSE, "Invalid or expired token")
        ELSE TokenValidation(TRUE, Get(payload, "sub", ""), Get(payload, "username", Null),
                             Get(payload, "email", Null),
                             Get(payload, "is_superuser", FALSE), "Token is valid")

\* execute(request): the try block, and the except that answers for it.
validate(token) ==
    LET payload == decode_token(token)
        user_id == Get(payload, "sub", "")
    IN  IF Falsy(payload)
        THEN TokenValidation(FALSE, Null, Null, Null, FALSE, "Invalid or expired token")
        ELSE IF user_id = ""
        THEN TokenValidation(FALSE, Null, Null, Null, FALSE, "Invalid token payload")
        ELSE IF UuidRaises(user_id)
        THEN TokenValidation(FALSE, Null, Null, Null, FALSE, "Token validation failed")
        ELSE TokenValidation(TRUE, user_id, Get(payload, "username", Null),
                             Get(payload, "email", Null),
                             Get(payload, "is_superuser", FALSE), "Token is valid")

----------------------------------------------------------------------------
(* What a client can present: every token handed out so far, and a        *)
(* well-formed access token with superuser claims signed with a key that   *)
(* is not the server's.  GarbageToken is a string that is no JWT.          *)

GarbageToken ==
    [wellformed |-> FALSE, key |-> "", payload |-> [raw |-> "invalid.token.here"]]

ForgedToken ==
    JwtEncode([sub          |-> "u2",
               username     |-> "admin",
               email        |-> "admin@clinic.test",
               is_superuser |-> TRUE,
               role         |-> "RRHH",
               roles        |-> <<"RRHH">>,
               type         |-> "access",
               exp          |-> 2000000000,
               iat          |-> 0], "attacker-key")

AttackerTokens == {GarbageToken, ForgedToken}

Presentable == issued \cup {ForgedToken}

Identifiers ==
    {users[u].email : u \in UserIds} \cup {users[u].username : u \in UserIds}
        \cup {"ghost"}

Passwords == {"Correct1!", "Wrong1!"}

\* A response: the fields a request does not set keep these defaults.
Resp(op, token, status, detail) ==
    [op            |-> op,
     token         |-> token,
     status        |-> status,
     detail        |-> detail,
     payload       |-> None,
     access_token  |-> NoToken,
     refresh_token |-> NoToken,
     ret_bool      |-> FALSE,
     ret_int       |-> 0,
     exp_bool      |-> FALSE,
     exp_int       |-> 0]

\* The clock moves by a second or by the access-token lifetime.
TickSteps ==
    {1} \cup {d \in {SecondsPerMinute * access_token_expire_minutes} : d > 0}

----------------------------------------------------------------------------
(* The threads that call one TokenBlacklist directly, as TEST 9 of         *)
(* scripts/test_logout.py starts them: each adds its own tokens.           *)

Threads == {"w1", "w2"}

NoThread == ""

StoreToken(name) == [wellformed |-> FALSE, key |-> "", payload |-> [raw |-> name]]

ThreadTokens(th) ==
    IF th = "w1"
    THEN {StoreToken("concurrent.token.0"), StoreToken("concurrent.token.1")}
    ELSE {StoreToken("concurrent.token.10"), StoreToken("concurrent.token.11")}

StoreTokens == UNION {ThreadTokens(th) : th \in Threads}

\* A thread's call in progress: where it is in the method, and its locals.
Frame(pc, op, token) ==
    [pc       |-> pc,
     op       |-> op,
     token    |-> token,
     before   |-> {},
     found    |-> FALSE,
     raised   |-> FALSE,
     ret_bool |-> FALSE,
     ret_int  |-> 0,
     exp_bool |-> FALSE,
     exp_int  |-> 0]

IdleFrame == Frame("idle", "", NoToken)

\* No login request is being executed.
NoRequest == [pc |-> "idle"]

\* _token_blacklist_instance = None; an instance is its place in `instances`.
NoInstance == 0

----------------------------------------------------------------------------
(* The state after start-up: settings loaded, an empty blacklist, the      *)
(* seeded users, no token handed out.                                       *)

Init ==
    /\ now = 0
    /\ ticks = 0
    /\ secret_key = SECRET_KEY
    /\ access_token_expire_minutes = ACCESS_TOKEN_EXPIRE_MINUTES
    /\ refresh_token_expire_days = REFRESH_TOKEN_EXPIRE_DAYS
    /\ users = SeedUsers
    /\ blacklist = {}
    /\ last_cleanup = 0
    /\ issued = {}
    /\ resp = Resp("start", NoToken, 0, "")
    /\ minted = {}
    /\ lock = NoThread
    /\ frame = [th \in Threads |-> IdleFrame]
    /\ model_set = {}
    /\ calls = 0
    /\ inflight = NoRequest
    /\ token_blacklist_instance = NoInstance
    /\ instances = <<>>

\* The clock advances.
Tick ==
    /\ ticks < MaxTicks
    /\ \E d \in TickSteps : now' = now + d
    /\ ticks' = ticks + 1
    /\ UNCHANGED <<inflight, minted, workers, config, users, blacklist, last_cleanup,
                   issued, resp>>

\* POST /auth/login: routes.login over LoginUserUseCase.execute.
Login(identifier, password) ==
    /\ Cardinality(issued) < MaxIssued
    /\ LET by_email == get_by_email(identifier)
           user     == IF by_email = NoUser THEN get_by_username(identifier)
                       ELSE by_email
       IN  IF user = NoUser
           THEN /\ resp' = Resp("login", NoToken, 401, "Invalid credentials")
                /\ UNCHANGED <<users, issued>>
           ELSE IF ~users[user].is_active
           THEN /\ resp' = Resp("login", NoToken, 401, "Account is inactive")
                /\ UNCHANGED <<users, issued>>
           ELSE IF ~pwd_verify(password, users[user].hashed_password)
           THEN /\ resp' = Resp("login", NoToken, 401, "Invalid credentials")
                /\ UNCHANGED <<users, issued>>
           ELSE LET user_roles    == get_user_roles(user)
                    primary_role  == login_primary_role(users[user].is_superuser, user_roles)
                    role_codes    == login_role_codes(users[user].is_superuser, user_roles)
                    access_token  == create_access_token(user, users[user].username,
                                        users[user].email, users[user].is_superuser,
                                        primary_role, role_codes)
                    refresh_token == create_refresh_token(user)
                IN  /\ users' = [users EXCEPT ![user].last_login = now,
                                              ![user].updated_at = now]
                    /\ issued' = issued \cup {access_token, refresh_token}
                    /\ resp' = [Resp("login", NoToken, 200, "") EXCEPT
                                    !.access_token = access_token,
                                    !.refresh_token = refresh_token]
    /\ UNCHANGED <<inflight, minted, workers, now, ticks, config, blacklist, last_cleanup>>

\* routes.refresh_token: the handler of POST /auth/refresh.
refresh_token(token) ==
    /\ LET payload == verify_token(token, "refresh")
           user    == IF Falsy(payload) THEN NoUser
                      ELSE get_by_id(Get(payload, "sub", ""))
       IN  IF Falsy(payload)
           THEN /\ resp' = Resp("refresh", token, 401, "Invalid or expired refresh token")
                /\ UNCHANGED issued
           ELSE IF user = NoUser
           THEN /\ resp' = Resp("refresh", token, 401, "User not found")
                /\ UNCHANGED issued
           ELSE IF ~users[user].is_active
           THEN /\ resp' = Resp("refresh", token, 401, "User account is inactive")
                /\ UNCHANGED issued
           ELSE LET user_roles    == get_user_roles(user)
                    primary_role  == refresh_primary_role(users[user].is_superuser, user_roles)
                    role_codes    == refresh_role_codes(users[user].is_superuser, user_roles)
                    access_token  == create_access_token(user, users[user].username,
                                        users[user].email, users[user].is_superuser,
                                        primary_role, role_codes)
                    new_refresh_token == create_refresh_token(user)
                IN  /\ issued' = issued \cup {access_token, new_refresh_token}
                    /\ resp' = [Resp("refresh", token, 200, "") EXCEPT
                                    !.access_token = access_token,
                                    !.refresh_token = new_refresh_token]
    /\ UNCHANGED <<inflight, minted, workers, now, ticks, config, users, blacklist, last_cleanup>>

\* POST /auth/refresh, while few tokens are out.
Refresh(token) ==
    /\ Cardinality(issued) < MaxIssued
    /\ refresh_token(token)

\* A request to a route that depends on get_current_user (GET /users/me).
GateCheck(token) ==
    /\ LET current_user == get_current_user(token)
       IN  resp' = [Resp("get_current_user", token, current_user.status,
                         current_user.detail) EXCEPT !.payload = current_user.payload]
    /\ UNCHANGED <<inflight, minted, workers, now, ticks, config, users, blacklist, last_cleanup, issued>>

\* A request to a route that depends on get_current_superuser.
SuperuserCheck(token) ==
    /\ LET current_user == get_current_superuser(token)
       IN  resp' = [Resp("get_current_superuser", token, current_user.status,
                         current_user.detail) EXCEPT !.payload = current_user.payload]
    /\ UNCHANGED <<inflight, minted, workers, now, ticks, config, users, blacklist, last_cleanup, issued>>

\* A request to a route that depends on get_current_rrhh_user (register).
RrhhCheck(token) ==
    /\ LET current_user == get_current_rrhh_user(token)
       IN  resp' = [Resp("get_current_rrhh_user", token, current_user.status,
                         current_user.detail) EXCEPT !.payload = current_user.payload]
    /\ UNCHANGED <<inflight, minted, workers, now, ticks, config, users, blacklist, last_cleanup, issued>>

\* POST /auth/logout: get_current_user, then LogoutUserUseCase.execute, which
\* raises ValueError (400) on an empty user id and else calls add_token.
Logout(token) ==
    /\ LET current_user == get_current_user(token)
           user_id      == Get(current_user.payload, "sub", "")
       IN  IF current_user.status # 200
           THEN /\ resp' = Resp("logout", token, current_user.status, current_user.detail)
                /\ UNCHANGED <<blacklist, last_cleanup>>
           ELSE IF user_id = ""
           THEN /\ resp' = Resp("logout", token, 400, "User ID must be a non-empty string")
                /\ UNCHANGED <<blacklist, last_cleanup>>
           ELSE /\ blacklist' = add_token_set(token)
                /\ last_cleanup' = auto_cleanup_last
                /\ resp' = Resp("logout", token, 200, "Successfully logged out")
    /\ UNCHANGED <<inflight, minted, workers, now, ticks, config, users, issued>>

(* Direct calls of the TokenBlacklist methods, as scripts/test_logout.py   *)
(* makes them; add_token is called there with strings no login produced.   *)

AddToken(token) ==
    /\ blacklist' = add_token_set(token)
    /\ last_cleanup' = auto_cleanup_last
    /\ resp' = Resp("add_token", token, 0, "")
    /\ UNCHANGED <<inflight, minted, workers, now, ticks, config, users, issued>>

RemoveToken(token) ==
    /\ blacklist' = remove_token_set(token)
    /\ resp' = [Resp("remove_token", token, 0, "") EXCEPT
                    !.ret_bool = remove_token_ret(token)]
    /\ UNCHANGED <<inflight, minted, workers, now, ticks, config, users, last_cleanup, issued>>

Clear ==
    /\ blacklist' = {}
    /\ resp' = Resp("clear", NoToken, 0, "")
    /\ UNCHANGED <<inflight, minted, workers, now, ticks, config, users, last_cleanup, issued>>

Next ==
    \/ Tick
    \/ \E identifier \in Identifiers, password \in Passwords : Login(identifier, password)
    \/ \E token \in Presentable : Refresh(token)
    \/ \E token \in Presentable : GateCheck(token)
    \/ \E token \in Presentable : SuperuserCheck(token)
    \/ \E token \in Presentable : RrhhCheck(token)
    \/ \E token \in Presentable : Logout(token)
    \/ AddToken(ForgedToken)
    \/ \E token \in Presentable : RemoveToken(token)
    \/ Clear

Spec == Init /\ [][Next]_vars

----------------------------------------------------------------------------
(* The JWTHandler on its own (SpecCodec): a handler constructed with any   *)
(* of a few lifetimes mints a token from any claims, and decode_token and  *)
(* verify_token are called on it, on a copy signed with another key, and   *)
(* on the attacker's strings, as the clock moves.                          *)

\* The lifetimes a JWTHandler is constructed with: the defaults of
\* config/settings.py, and a zero and a negative access lifetime.
AccessLifetimes == {-1, 0, ACCESS_TOKEN_EXPIRE_MINUTES}

RefreshLifetimes == {0, REFRESH_TOKEN_EXPIRE_DAYS}

\* The arguments of create_access_token.
AccessArgs ==
    [user_id      : {"u1"},
     username     : {"jdoe"},
     email        : {"jdoe@clinic.test"},
     is_superuser : BOOLEAN,
     role         : {"MEDICO", "RRHH"},
     roles        : {<<>>, <<"RRHH">>, <<"MEDICO", "RRHH">>}]

\* The token as it arrives when its signature was made with another key.
Resigned(token) == [token EXCEPT !.key = "attacker-key"]

\* The strings handed to decode_token and verify_token.
CodecTokens ==
    {m.token : m \in minted} \cup {Resigned(m.token) : m \in minted}
        \cup AttackerTokens

InitCodec ==
    /\ now = 0
    /\ ticks = 0
    /\ secret_key = SECRET_KEY
    /\ access_token_expire_minutes \in AccessLifetimes
    /\ refresh_token_expire_days \in RefreshLifetimes
    /\ users = SeedUsers
    /\ blacklist = {}
    /\ last_cleanup = 0
    /\ issued = {}
    /\ resp = Resp("start", NoToken, 0, "")
    /\ minted = {}
    /\ lock = NoThread
    /\ frame = [th \in Threads |-> IdleFrame]
    /\ model_set = {}
    /\ calls = 0
    /\ inflight = NoRequest
    /\ token_blacklist_instance = NoInstance
    /\ instances = <<>>

\* The clock moves by the refresh-token lifetime.
TickLong ==
    /\ ticks < MaxTicks
    /\ refresh_token_expire_days > 0
    /\ now' = now + SecondsPerDay * refresh_token_expire_days
    /\ ticks' = ticks + 1
    /\ UNCHANGED <<inflight, minted, workers, config, users, blacklist, last_cleanup,
                   issued, resp>>

\* jwt_handler.create_access_token(...): the token under test is replaced.
IssueAccess(args) ==
    /\ LET token == create_access_token(args.user_id, args.username, args.email,
                        args.is_superuser, args.role, args.roles)
       IN  /\ minted' = {[kind |-> "access", args |-> args, token |-> token, at |-> now]}
           /\ resp' = [Resp("create_access_token", NoToken, 0, "") EXCEPT
                           !.access_token = token]
    /\ UNCHANGED <<inflight, workers, now, ticks, config, users, blacklist, last_cleanup, issued>>

\* jwt_handler.create_refresh_token(user_id)
IssueRefresh(user_id) ==
    /\ LET token == create_refresh_token(user_id)
       IN  /\ minted' = {[kind |-> "refresh", args |-> [user_id |-> user_id],
                          token |-> token, at |-> now]}
           /\ resp' = [Resp("create_refresh_token", NoToken, 0, "") EXCEPT
                           !.refresh_token = token]
    /\ UNCHANGED <<inflight, workers, now, ticks, config, users, blacklist, last_cleanup, issued>>

\* jwt_handler.decode_token(token)
Decode(token) ==
    /\ resp' = [Resp("decode_token", token, 0, "") EXCEPT
                    !.payload = decode_token(token)]
    /\ UNCHANGED <<inflight, minted, workers, now, ticks, config, users, blacklist,
                   last_cleanup, issued>>

\* jwt_handler.verify_token(token, token_type)
Verify(token, token_type) ==
    /\ resp' = [Resp("verify_token", token, 0, token_type) EXCEPT
                    !.payload = verify_token(token, token_type)]
    /\ UNCHANGED <<inflight, minted, workers, now, ticks, config, users, blacklist,
                   last_cleanup, issued>>

NextCodec ==
    \/ Tick
    \/ TickLong
    \/ \E args \in AccessArgs : IssueAccess(args)
    \/ IssueRefresh("u1")
    \/ \E token \in CodecTokens : Decode(token)
    \/ \E token \in CodecTokens, token_type \in {"access", "refresh"} :
           Verify(token, token_type)

SpecCodec == InitCodec /\ [][NextCodec]_vars

----------------------------------------------------------------------------
(* The TokenBlacklist under threads (SpecStore): every method is           *)
(* `with self._lock:` around its statements, and a step is taking the      *)
(* lock, one statement of the body, or leaving the block.  model_set is    *)
(* the set the completed calls amount to, each call taken at the statement *)
(* that reads or writes _blacklist.                                        *)

\* threading.Lock.acquire: the lock is handed to one thread at a time.
LockFree_NoExclusion == TRUE

LockFree == lock = NoThread

StoreOps == {"add_token", "is_blacklisted", "remove_token", "clear", "size"}

\* The calls a thread makes: it adds its own tokens, and asks about and
\* removes any token.
CallTokens(th, op) ==
    CASE op = "add_token" -> ThreadTokens(th)
      [] op \in {"is_blacklisted", "remove_token"} -> StoreTokens
      [] OTHER -> {NoToken}

InitStore ==
    /\ now = 0
    /\ ticks = 0
    /\ secret_key = SECRET_KEY
    /\ access_token_expire_minutes = ACCESS_TOKEN_EXPIRE_MINUTES
    /\ refresh_token_expire_days = REFRESH_TOKEN_EXPIRE_DAYS
    /\ users = SeedUsers
    /\ blacklist = {}
    /\ last_cleanup = 0
    /\ issued = {}
    /\ resp = Resp("start", NoToken, 0, "")
    /\ minted = {}
    /\ lock = NoThread
    /\ frame = [th \in Threads |-> IdleFrame]
    /\ model_set = {}
    /\ calls = 0
    /\ inflight = NoRequest
    /\ token_blacklist_instance = NoInstance
    /\ instances = <<>>

\* A thread calls a method and enters its `with self._lock:` block.
Acquire(th, op, token) ==
    /\ frame[th].pc = "idle"
    /\ calls < MaxCalls
    /\ LockFree
    /\ lock' = th
    /\ calls' = calls + 1
    /\ frame' = [frame EXCEPT ![th] =
                     [Frame("body", op, token) EXCEPT !.before = blacklist]]
    /\ UNCHANGED <<token_blacklist_instance, instances, inflight, minted, model_set, now, ticks, config, users, blacklist,
                   last_cleanup, issued, resp>>

\* The first statement of the block.
Body(th) ==
    /\ frame[th].pc = "body"
    /\ LET op    == frame[th].op
           token == frame[th].token
       IN  CASE op = "add_token" ->
                    /\ blacklist' = add_token_set(token)
                    /\ model_set' = model_set \cup {token}
                    /\ frame' = [frame EXCEPT ![th].pc = "cleanup"]
             [] op = "is_blacklisted" ->
                    /\ frame' = [frame EXCEPT ![th].pc = "unlock",
                                              ![th].ret_bool = is_blacklisted(token),
                                              ![th].exp_bool = (token \in model_set)]
                    /\ UNCHANGED <<blacklist, model_set>>
             [] op = "remove_token" ->
                    /\ frame' = [frame EXCEPT
                                    ![th].pc = IF remove_token_ret(token)
                                               THEN "remove" ELSE "unlock",
                                    ![th].found = remove_token_ret(token),
                                    ![th].ret_bool = FALSE,
                                    ![th].exp_bool = (token \in model_set)]
                    /\ model_set' = model_set \ {token}
                    /\ UNCHANGED blacklist
             [] op = "clear" ->
                    /\ blacklist' = {}
                    /\ model_set' = {}
                    /\ frame' = [frame EXCEPT ![th].pc = "unlock"]
             [] op = "size" ->
                    /\ frame' = [frame EXCEPT ![th].pc = "unlock",
                                              ![th].ret_int = size,
                                              ![th].exp_int = Cardinality(model_set)]
                    /\ UNCHANGED <<blacklist, model_set>>
    /\ UNCHANGED <<token_blacklist_instance, instances, inflight, minted, lock, calls, now, ticks, config, users, last_cleanup,
                   issued, resp>>

\* add_token's second statement: self._auto_cleanup().
Cleanup(th) ==
    /\ frame[th].pc = "cleanup"
    /\ last_cleanup' = auto_cleanup_last
    /\ frame' = [frame EXCEPT ![th].pc = "unlock"]
    /\ UNCHANGED <<token_blacklist_instance, instances, inflight, minted, lock, model_set, calls, now, ticks, config, users,
                   blacklist, issued, resp>>

\* remove_token's `self._blacklist.remove(token)`; `return True`.  set.remove
\* raises KeyError when the token is no longer there.
RemoveStmt(th) ==
    /\ frame[th].pc = "remove"
    /\ IF frame[th].token \in blacklist
       THEN /\ blacklist' = remove_token_set(frame[th].token)
            /\ frame' = [frame EXCEPT ![th].pc = "unlock", ![th].ret_bool = TRUE]
       ELSE /\ frame' = [frame EXCEPT ![th].pc = "unlock", ![th].raised = TRUE]
            /\ UNCHANGED blacklist
    /\ UNCHANGED <<token_blacklist_instance, instances, inflight, minted, lock, model_set, calls, now, ticks, config, users,
                   last_cleanup, issued, resp>>

\* The block is left: the lock is released and the call returns.
Release(th) ==
    /\ frame[th].pc = "unlock"
    /\ lock' = NoThread
    /\ resp' = [Resp(frame[th].op, frame[th].token, 0,
                     IF frame[th].raised THEN "KeyError" ELSE "") EXCEPT
                    !.ret_bool = frame[th].ret_bool,
                    !.ret_int  = frame[th].ret_int,
                    !.exp_bool = frame[th].exp_bool,
                    !.exp_int  = frame[th].exp_int]
    /\ frame' = [frame EXCEPT ![th] = IdleFrame]
    /\ UNCHANGED <<token_blacklist_instance, instances, inflight, minted, model_set, calls, now, ticks, config, users, blacklist,
                   last_cleanup, issued>>

NextStore ==
    \/ \E th \in Threads, op \in StoreOps :
           \E token \in CallTokens(th, op) : Acquire(th, op, token)
    \/ \E th \in Threads : Body(th)
    \/ \E th \in Threads : Cleanup(th)
    \/ \E th \in Threads : RemoveStmt(th)
    \/ \E th \in Threads : Release(th)

SpecStore == InitStore /\ [][NextStore]_vars

----------------------------------------------------------------------------
(* Login and refresh against accounts that change (SpecAccounts): the      *)
(* persisted users and roles are changed between requests by the user and  *)
(* role administration (assign_role, remove_role, delete, the role update) *)
(* and by whoever else writes the users table.                             *)

\* The account the administration acts on.
Account == "u1"

RoleCodes == {"MEDICO", "RRHH"}

\* The rows of the roles table that can be assigned.
RoleRows == {Role(code, active) : code \in RoleCodes, active \in BOOLEAN}

\* The identifiers presented at login: the account's email and username and
\* one that matches nobody.
AccountIdentifiers == {users[Account].email, users[Account].username, "ghost"}

\* The tokens presented to POST /auth/refresh.
RefreshInputs == Presentable \cup AttackerTokens

\* A role row has one is_active flag, whoever it is assigned to.
SetActive(rs, code, active) ==
    [i \in 1..Len(rs) |->
        IF rs[i].code = code THEN [rs[i] EXCEPT !.is_active = active] ELSE rs[i]]

HoldsCode(rs, code) == InSeq(code, Codes(rs))

WithoutCode(rs, code) == SelectSeq(rs, LAMBDA r : r.code # code)

InitAccounts ==
    /\ now = 0
    /\ ticks = 0
    /\ secret_key = SECRET_KEY
    /\ access_token_expire_minutes = ACCESS_TOKEN_EXPIRE_MINUTES
    /\ refresh_token_expire_days = REFRESH_TOKEN_EXPIRE_DAYS
    /\ \E is_superuser \in BOOLEAN :
           users = [SeedUsers EXCEPT ![Account].is_superuser = is_superuser]
    /\ blacklist = {}
    /\ last_cleanup = 0
    /\ issued = {}
    /\ resp = Resp("start", NoToken, 0, "")
    /\ minted = {}
    /\ lock = NoThread
    /\ frame = [th \in Threads |-> IdleFrame]
    /\ model_set = {}
    /\ calls = 0
    /\ inflight = NoRequest
    /\ token_blacklist_instance = NoInstance
    /\ instances = <<>>

\* UserRepositoryImpl.assign_role: the role is appended to the user's roles.
AssignRole(u, role) ==
    /\ users[u].exists
    /\ ~HoldsCode(users[u].roles, role.code)
    /\ \A v \in UserIds : \A i \in 1..Len(users[v].roles) :
           users[v].roles[i].code = role.code => users[v].roles[i] = role
    /\ users' = [users EXCEPT ![u].roles = Append(@, role)]
    /\ UNCHANGED <<inflight, minted, workers, now, ticks, config, blacklist,
                   last_cleanup, issued, resp>>

\* UserRepositoryImpl.remove_role
RemoveRole(u, code) ==
    /\ users[u].exists
    /\ HoldsCode(users[u].roles, code)
    /\ users' = [users EXCEPT ![u].roles = WithoutCode(@, code)]
    /\ UNCHANGED <<inflight, minted, workers, now, ticks, config, blacklist,
                   last_cleanup, issued, resp>>

\* RoleRepositoryImpl.update after Role.activate or Role.deactivate.
SetRoleActive(code, active) ==
    /\ \E v \in UserIds : HoldsCode(users[v].roles, code)
    /\ users' = [v \in UserIds |->
                    [users[v] EXCEPT !.roles = SetActive(@, code, active)]]
    /\ users' # users
    /\ UNCHANGED <<inflight, minted, workers, now, ticks, config, blacklist,
                   last_cleanup, issued, resp>>

\* The user row's is_active is written (User.activate, User.deactivate).
SetUserActive(u, active) ==
    /\ users[u].exists
    /\ users[u].is_active # active
    /\ users' = [users EXCEPT ![u].is_active = active]
    /\ UNCHANGED <<inflight, minted, workers, now, ticks, config, blacklist,
                   last_cleanup, issued, resp>>

\* UserRepositoryImpl.delete
DeleteUser(u) ==
    /\ users[u].exists
    /\ users' = [users EXCEPT ![u].exists = FALSE]
    /\ UNCHANGED <<inflight, minted, workers, now, ticks, config, blacklist,
                   last_cleanup, issued, resp>>

NextAccounts ==
    \/ TickLong
    \/ \E identifier \in AccountIdentifiers, password \in Passwords :
           Login(identifier, password)
    \/ \E token \in RefreshInputs : Refresh(token)
    \/ \E role \in RoleRows : AssignRole(Account, role)
    \/ \E code \in RoleCodes : RemoveRole(Account, code)
    \/ \E code \in RoleCodes, active \in BOOLEAN : SetRoleActive(code, active)
    \/ \E active \in BOOLEAN : SetUserActive(Account, active)
    \/ DeleteUser(Account)

SpecAccounts == InitAccounts /\ [][NextAccounts]_vars

----------------------------------------------------------------------------
(* One session that keeps refreshing (SpecReuse): the account logs in      *)
(* once, and every token it holds is presented to POST /auth/refresh and   *)
(* to the gate again and again while the clock moves and the account is    *)
(* deactivated, reactivated or deleted.                                    *)

\* The account's one login.
FirstLogin ==
    /\ issued = {}
    /\ Login(users[Account].email, "Correct1!")

\* POST /auth/refresh by the session.
RefreshAgain(token) ==
    /\ Cardinality(issued) < MaxHeld
    /\ refresh_token(token)

NextReuse ==
    \/ Tick
    \/ TickLong
    \/ FirstLogin
    \/ \E token \in issued : RefreshAgain(token)
    \/ \E token \in issued : GateCheck(token)
    \/ \E active \in BOOLEAN : SetUserActive(Account, active)
    \/ DeleteUser(Account)

SpecReuse == Init /\ [][NextReuse]_vars

----------------------------------------------------------------------------
(* Properties of the request-level machine (Spec). *)

IsRevoked(outcome) ==
    outcome.status = 401 /\ outcome.detail = "Token has been revoked"

IsInvalidOrExpired(outcome) ==
    outcome.status = 401 /\ outcome.detail = "Invalid or expired token"

TokenType(token) == IF token.wellformed THEN Get(token.payload, "type", "") ELSE ""

\* C1: while a token is in the blacklist, get_current_user rejects a request
\* presenting it with 401 "Token has been revoked", whether or not the token
\* is a correctly signed, unexpired access token; so does every response of
\* get_current_user recorded for a token that is still in the blacklist.
C1_RevokedAlwaysRejected ==
    /\ \A t \in Presentable :
           is_blacklisted(t) => IsRevoked(get_current_user(t))
    /\ (resp.op = "get_current_user" /\ is_blacklisted(resp.token))
           => IsRevoked(resp)

\* C1 witness: a gate check has answered "revoked" for a blacklisted token
\* that still verifies as an access token.
C1_Witness ==
    /\ resp.op = "get_current_user"
    /\ is_blacklisted(resp.token)
    /\ IsRevoked(resp)
    /\ ~Falsy(verify_token(resp.token, "access"))

\* A step in which a logout request completed successfully.
LogoutSucceeds == resp' # resp /\ resp'.op = "logout" /\ resp'.status = 200

\* C2: a successful logout with token t puts t in the blacklist, so that
\* get_current_user rejects t as revoked from then on; t leaves the blacklist
\* only by remove_token or clear; and every other token that get_current_user
\* accepted before the logout is still accepted after it.
C2_LogoutRevokesOnlyThatToken ==
    [][ /\ LogoutSucceeds =>
              /\ resp'.token \in blacklist'
              /\ \A t \in Presentable \ {resp'.token} :
                     get_current_user(t).status = 200
                         => (get_current_user(t))'.status = 200
        /\ \A t \in blacklist :
              \/ t \in blacklist' /\ IsRevoked((get_current_user(t))')
              \/ resp'.op \in {"remove_token", "clear"}
      ]_vars

\* C2 witness: after a logout of one token, a gate check has rejected it as
\* revoked while another access token of the same user is accepted.
C2_Witness ==
    /\ resp.op = "get_current_user"
    /\ resp.token \in issued
    /\ is_blacklisted(resp.token)
    /\ IsRevoked(resp)
    /\ \E t \in issued :
           /\ t # resp.token
           /\ t.payload.sub = resp.token.payload.sub
           /\ get_current_user(t).status = 200

\* C3: a token issued as a refresh token never verifies as "access" and is
\* never let through by get_current_user; a token issued as an access token
\* never verifies as "refresh" and is never accepted by the refresh route.
C3_KindsNotInterchangeable ==
    /\ \A t \in issued :
           /\ TokenType(t) = "refresh" =>
                  /\ verify_token(t, "access") = None
                  /\ get_current_user(t).status # 200
           /\ TokenType(t) = "access" => verify_token(t, "refresh") = None
    /\ resp.op \in {"get_current_user", "get_current_superuser",
                    "get_current_rrhh_user", "logout"}
           => (TokenType(resp.token) = "refresh" => resp.status # 200)
    /\ resp.op = "refresh"
           => (TokenType(resp.token) = "access" => resp.status = 401)

\* C3 witness: get_current_user has turned down a refresh token that is
\* correctly signed, unexpired and not revoked.
C3_Witness ==
    /\ resp.op = "get_current_user"
    /\ resp.token \in issued
    /\ TokenType(resp.token) = "refresh"
    /\ ~Falsy(decode_token(resp.token))
    /\ ~is_blacklisted(resp.token)
    /\ IsInvalidOrExpired(resp)

\* A step in which get_current_user answered a request.
GateAnswers == resp' # resp /\ resp'.op = "get_current_user"

\* C8: for a token that is not blacklisted, get_current_user accepts exactly
\* when verify_token(token, "access") returns a payload, and hands exactly
\* that payload to the route; otherwise it answers 401 "Invalid or expired
\* token".  The blacklist is consulted first: a blacklisted token is answered
\* "revoked" even when it would not verify.
C8_GateAcceptsIffVerifies ==
    [][ GateAnswers =>
            LET payload == verify_token(resp'.token, "access")
            IN  IF is_blacklisted(resp'.token)
                THEN IsRevoked(resp')
                ELSE IF ~Falsy(payload)
                THEN resp'.status = 200 /\ resp'.payload = payload
                ELSE IsInvalidOrExpired(resp') /\ resp'.payload = None
      ]_vars

\* C8 witness: a token that is not blacklisted was accepted with its payload.
C8_Witness ==
    /\ resp.op = "get_current_user"
    /\ ~is_blacklisted(resp.token)
    /\ resp.status = 200
    /\ resp.payload = verify_token(resp.token, "access")
    /\ ~Falsy(resp.payload)

\* C9: get_current_rrhh_user admits a request exactly when get_current_user
\* accepts the token and its "role" claim is "RRHH"; an accepted token whose
\* role is another code is answered 403 even when "RRHH" is among its roles,
\* and a token get_current_user rejects gets that rejection.
C9_RrhhGateStrictPrimaryRole ==
    /\ \A t \in Presentable :
           LET current_user == get_current_user(t)
               rrhh         == get_current_rrhh_user(t)
           IN  /\ rrhh.status = 200 <=>
                      /\ current_user.status = 200
                      /\ Get(current_user.payload, "role", "") = "RRHH"
               /\ (current_user.status = 200
                      /\ Get(current_user.payload, "role", "") # "RRHH")
                      => rrhh.status = 403
               /\ current_user.status # 200 => rrhh = current_user
    /\ resp.op = "get_current_rrhh_user" =>
           /\ resp.status = 200 => Get(resp.payload, "role", "") = "RRHH"
           /\ resp.status = 403 => Get(resp.token.payload, "role", "") # "RRHH"
           /\ resp.status \in {200, 401, 403}

\* C9 witness: a token whose roles contain "RRHH" but whose role is "MEDICO"
\* was answered 403 by the RRHH gate.
C9_Witness ==
    /\ resp.op = "get_current_rrhh_user"
    /\ resp.status = 403
    /\ resp.token \in issued
    /\ resp.token.payload.role = "MEDICO"
    /\ resp.token.payload.roles = <<"MEDICO", "RRHH">>
    /\ ~resp.token.payload.is_superuser

\* C10: get_current_superuser admits a request exactly when get_current_user
\* accepts the token and its is_superuser claim is true; an accepted token of
\* a non-superuser is answered 403, and a token get_current_user rejects is
\* answered with that 401, whatever its is_superuser claim says.
C10_SuperuserGate ==
    /\ \A t \in Presentable :
           LET current_user == get_current_user(t)
               super        == get_current_superuser(t)
           IN  /\ super.status = 200 <=>
                      /\ current_user.status = 200
                      /\ Get(current_user.payload, "is_superuser", FALSE)
               /\ (current_user.status = 200
                      /\ ~Get(current_user.payload, "is_superuser", FALSE))
                      => super.status = 403
               /\ current_user.status # 200 => super = current_user /\ super.status = 401
    /\ resp.op = "get_current_superuser" =>
           /\ resp.status = 200 => Get(resp.payload, "is_superuser", FALSE)
           /\ resp.status = 403 => ~Get(resp.token.payload, "is_superuser", FALSE)
           /\ resp.status \in {200, 401, 403}

\* C10 witness: the superuser gate answered 403 to an accepted token of a
\* non-superuser whose role is "RRHH".
C10_Witness ==
    /\ resp.op = "get_current_superuser"
    /\ resp.status = 403
    /\ resp.token \in issued
    /\ ~resp.token.payload.is_superuser
    /\ resp.token.payload.role = "RRHH"

----------------------------------------------------------------------------
(* Properties of the JWTHandler (SpecCodec). *)

DecodeAnswers == resp' # resp /\ resp'.op = "decode_token"

CorrectlySigned(token) == token.wellformed /\ token.key = secret_key

\* The minted record of `token`, when it is the access token under test.
MintedAccess(token) ==
    {m \in minted : m.kind = "access" /\ m.token = token}

\* C6: decode_token returns None, and raises nothing, for every malformed
\* token, every token signed with another key, and every token whose exp is
\* earlier than the second of the call, which a token of a negative lifetime
\* is from the moment it is issued; it returns the claims exactly for a
\* correctly signed token whose exp is the current second or later, so a
\* token of zero lifetime still decodes during the second it was issued in.
C6_DecodeNoneUnlessSignedAndUnexpired ==
    [][DecodeAnswers =>
        LET token == resp'.token
            good  == CorrectlySigned(token) /\ token.payload.exp >= now
        IN  /\ good => resp'.payload = token.payload /\ resp'.payload # None
            /\ ~good => resp'.payload = None
            /\ \A m \in minted :
                   m.token = token /\ m.token.payload.exp = m.at /\ now = m.at
                       => resp'.payload = token.payload]_vars

\* C6 witness: a correctly signed token of a negative lifetime was decoded,
\* and the answer was None.
C6_Witness ==
    /\ resp.op = "decode_token"
    /\ resp.payload = None
    /\ CorrectlySigned(resp.token)
    /\ \E m \in minted : m.token = resp.token /\ m.token.payload.exp < m.at

\* C6 as the specification states it: None for every malformed or wrongly
\* signed token and for every token issued with a zero or negative lifetime
\* or otherwise past its expiry; claims only for the others.
C6_Original ==
    [][DecodeAnswers =>
        LET token   == resp'.token
            expired == \/ token.payload.exp < now
                       \/ \E m \in minted :
                              m.token = token /\ m.token.payload.exp <= m.at
            good    == CorrectlySigned(token) /\ ~expired
        IN  /\ ~good => resp'.payload = None
            /\ resp'.payload # None => good]_vars

\* The claims create_access_token was called with are well formed: the role
\* codes are a non-empty list.
WellFormedArgs(args) == args.roles # <<>>

\* C7: with a positive access lifetime, decode_token of the token that
\* create_access_token made from well-formed claims, called before the
\* token's expiry, returns claims equal to the input and of type "access".
C7_AccessRoundTrip ==
    [][DecodeAnswers =>
        \A m \in MintedAccess(resp'.token) :
            /\ WellFormedArgs(m.args)
            /\ access_token_expire_minutes > 0
            /\ now < m.at + SecondsPerMinute * access_token_expire_minutes
            => /\ resp'.payload # None
               /\ resp'.payload.sub = m.args.user_id
               /\ resp'.payload.username = m.args.username
               /\ resp'.payload.email = m.args.email
               /\ resp'.payload.is_superuser = m.args.is_superuser
               /\ resp'.payload.role = m.args.role
               /\ resp'.payload.roles = m.args.roles
               /\ resp'.payload.type = "access"]_vars

\* C7 witness: an access token made from well-formed claims of several role
\* codes was decoded, after the clock had moved and before its expiry, and
\* claims came back.
C7_Witness ==
    /\ resp.op = "decode_token"
    /\ resp.payload # None
    /\ access_token_expire_minutes > 0
    /\ \E m \in MintedAccess(resp.token) :
           /\ Len(m.args.roles) > 1
           /\ m.at < now
           /\ now < m.at + SecondsPerMinute * access_token_expire_minutes

----------------------------------------------------------------------------
(* Properties of the TokenBlacklist under threads (SpecStore). *)

Quiescent == \A th \in Threads : frame[th].pc = "idle"

InCall == {th \in Threads : frame[th].pc # "idle"}

TokensEach == Cardinality(ThreadTokens("w1"))

\* C4: under every interleaving of the threads' add_token, is_blacklisted,
\* remove_token, clear and size calls, a call runs its block with no other
\* call inside one, every call returns what the set of the calls completed
\* before it gives (no KeyError, no stale answer), whenever no call is in
\* progress the blacklist is exactly the net effect of the completed calls,
\* and once every thread's tokens are all added and none removed the size is
\* the number of threads times the tokens of each.
C4_StoreAtomicUnderThreads ==
    /\ Cardinality(InCall) <= 1
    /\ Quiescent => blacklist = model_set
    /\ resp.op \in StoreOps =>
           /\ resp.detail # "KeyError"
           /\ resp.ret_bool = resp.exp_bool
           /\ resp.ret_int = resp.exp_int
    /\ Quiescent /\ StoreTokens \subseteq model_set =>
           size = Cardinality(Threads) * TokensEach

\* C4 witness: both threads have added both of their tokens, the last call
\* was an add, no call is in progress, and the store holds all of them.
C4_Witness ==
    /\ Quiescent
    /\ resp.op = "add_token"
    /\ \A th \in Threads : ThreadTokens(th) \subseteq blacklist
    /\ size = Cardinality(Threads) * TokensEach

Returns(th) == frame[th].pc = "unlock" /\ frame'[th].pc = "idle"

\* C5: the store starts empty, and each call, from the blacklist it found to
\* the blacklist it leaves, acts on a set of tokens: add_token(t) leaves the
\* set with t in it and one larger exactly when t was not in it;
\* remove_token(t) returns True and takes out exactly t when t was in it, and
\* returns False and changes nothing when it was not; is_blacklisted(t) is
\* True exactly for a token in it; clear leaves it empty; size returns the
\* number of distinct tokens in it.
C5_StoreIsASet ==
    [][/\ calls = 0 => size = 0
       /\ \A th \in Threads : Returns(th) =>
           LET before == frame[th].before
               token  == frame[th].token
               op     == frame[th].op
           IN  /\ op = "add_token" =>
                      /\ blacklist' = before \cup {token}
                      /\ token \in blacklist'
                      /\ Cardinality(blacklist') =
                             Cardinality(before) + (IF token \in before THEN 0 ELSE 1)
               /\ op = "remove_token" /\ token \in before =>
                      /\ resp'.ret_bool = TRUE
                      /\ blacklist' = before \ {token}
               /\ op = "remove_token" /\ token \notin before =>
                      /\ resp'.ret_bool = FALSE
                      /\ blacklist' = before
               /\ op = "is_blacklisted" =>
                      /\ resp'.ret_bool = (token \in before)
                      /\ blacklist' = before
               /\ op = "clear" => blacklist' = {} /\ Cardinality(blacklist') = 0
               /\ op = "size" =>
                      /\ resp'.ret_int = Cardinality(before)
                      /\ blacklist' = before]_vars

\* C5 witness: remove_token returned True for a token that was there, and
\* the store still holds another token.
C5_Witness ==
    /\ Quiescent
    /\ resp.op = "remove_token"
    /\ resp.ret_bool
    /\ resp.token \notin blacklist
    /\ blacklist # {}

----------------------------------------------------------------------------
(* Properties of logout's rejections (Spec). *)

LogoutAnswers == resp' # resp /\ resp'.op = "logout"

\* A correctly signed access token that jwt.decode still accepts.
ValidAccess(token) ==
    /\ CorrectlySigned(token)
    /\ token.payload.exp >= now
    /\ TokenType(token) = "access"

\* C20: a logout whose bearer token is already in the blacklist, or is not a
\* correctly signed, unexpired access token, is answered 401 and leaves the
\* blacklist as it was; a logout with a valid access token that is not in
\* the blacklist is answered 200 and adds exactly that token to it.
C20_LogoutRejectsOrRevokesExactly ==
    [][LogoutAnswers =>
        LET token == resp'.token
            good  == token \notin blacklist /\ ValidAccess(token)
        IN  /\ ~good => resp'.status = 401 /\ blacklist' = blacklist
            /\ good => /\ resp'.status = 200
                       /\ blacklist' = blacklist \cup {token}
                       /\ token \notin blacklist]_vars

\* C20 witness: a logout with a token that an earlier logout had revoked,
\* and that is otherwise a valid access token, was answered 401.
C20_Witness ==
    /\ resp.op = "logout"
    /\ resp.status = 401
    /\ resp.detail = "Token has been revoked"
    /\ resp.token \in blacklist
    /\ ValidAccess(resp.token)
    /\ size = 1

----------------------------------------------------------------------------
(* Properties of login and refresh against changing accounts               *)
(* (SpecAccounts). *)

\* The codes of the active roles among `rs`, in the order of `rs`.
ActiveCodes(rs) == Codes(SelectSeq(rs, LAMBDA r : r.is_active))

\* The primary role the specification resolves for a user row.
ExpectedRole(row) ==
    IF row.is_superuser THEN "RRHH"
    ELSE IF ActiveCodes(row.roles) # <<>> THEN Head(ActiveCodes(row.roles))
    ELSE "USER"

\* The role codes the specification resolves for a user row.
ExpectedRoles(row) ==
    LET codes     == ActiveCodes(row.roles)
        with_rrhh == IF row.is_superuser /\ ~InSeq("RRHH", codes)
                     THEN codes \o <<"RRHH">> ELSE codes
    IN  IF with_rrhh = <<>> THEN <<"USER">> ELSE with_rrhh

\* The existing users an identifier matches, by email or by username.
Matches(identifier) ==
    {u \in UserIds : /\ users[u].exists
                     /\ \/ users[u].email = identifier
                        \/ users[u].username = identifier}

IssuesNothing ==
    /\ resp'.access_token = NoToken
    /\ resp'.refresh_token = NoToken
    /\ issued' = issued

\* C11: the access token of a successful login carries role "RRHH" for a
\* superuser, else the code of the first active role in the order of the
\* user's roles, else "USER"; and roles = the active roles' codes in order,
\* with "RRHH" appended for a superuser who lacks it, and <<"USER">> when
\* that list would be empty.
C11_LoginResolvesRoles ==
    [][\A identifier \in AccountIdentifiers, password \in Passwords :
          Login(identifier, password) /\ resp'.status = 200 =>
              \A u \in Matches(identifier) :
                  /\ resp'.access_token.payload.sub = u
                  /\ resp'.access_token.payload.role = ExpectedRole(users[u])
                  /\ resp'.access_token.payload.roles = ExpectedRoles(users[u])
                  /\ ~users[u].is_superuser /\ ActiveCodes(users[u].roles) = <<"MEDICO">>
                         => /\ resp'.access_token.payload.role = "MEDICO"
                            /\ resp'.access_token.payload.roles = <<"MEDICO">>]_vars

\* C11 witness: a non-superuser whose first assigned role is inactive and
\* whose only active role is MEDICO logged in and got role MEDICO and roles
\* <<MEDICO>>.
C11_Witness ==
    /\ resp.op = "login"
    /\ resp.status = 200
    /\ ~users[Account].is_superuser
    /\ Codes(users[Account].roles) = <<"RRHH", "MEDICO">>
    /\ ActiveCodes(users[Account].roles) = <<"MEDICO">>
    /\ resp.access_token.payload.role = "MEDICO"
    /\ resp.access_token.payload.roles = <<"MEDICO">>

\* C12: every access token that login or refresh has issued has a non-empty
\* roles list, and its role is one of its roles.
C12_RoleAmongRoles ==
    \A t \in issued :
        TokenType(t) = "access" =>
            /\ t.payload.roles # <<>>
            /\ InSeq(t.payload.role, t.payload.roles)

\* C12 witness: a refresh issued an access token to a superuser whose
\* active roles do not include RRHH; the token's role is RRHH and RRHH is
\* the last of its roles.
C12_Witness ==
    /\ resp.op = "refresh"
    /\ resp.status = 200
    /\ resp.access_token \in issued
    /\ users[Account].is_superuser
    /\ ActiveCodes(users[Account].roles) = <<"MEDICO">>
    /\ resp.access_token.payload.role = "RRHH"
    /\ resp.access_token.payload.roles = <<"MEDICO", "RRHH">>

\* C13: a login fails with "Invalid credentials" when the identifier matches
\* no user by email or username, with "Account is inactive" when the user
\* found is inactive, and with "Invalid credentials" when the password does
\* not verify against the stored hash; in each case the answer is 401, no
\* token is issued, and no user's last_login changes.
C13_LoginFailures ==
    [][\A identifier \in AccountIdentifiers, password \in Passwords :
          Login(identifier, password) =>
              /\ Matches(identifier) = {} =>
                     /\ resp'.status = 401
                     /\ resp'.detail = "Invalid credentials"
              /\ \A u \in Matches(identifier) :
                     /\ ~users[u].is_active =>
                            /\ resp'.status = 401
                            /\ resp'.detail = "Account is inactive"
                     /\ users[u].is_active
                            /\ users[u].hashed_password # Hash(password) =>
                            /\ resp'.status = 401
                            /\ resp'.detail = "Invalid credentials"
              /\ resp'.status # 200 =>
                     /\ IssuesNothing
                     /\ \A u \in UserIds : users'[u].last_login = users[u].last_login]_vars

\* C13 witness: a login to the inactive account, which has never logged in,
\* was answered "Account is inactive".
C13_Witness ==
    /\ resp.op = "login"
    /\ resp.status = 401
    /\ resp.detail = "Account is inactive"
    /\ users[Account].exists
    /\ ~users[Account].is_active
    /\ users[Account].last_login = NoTime
    /\ issued = {}

\* What a login answers to an identifier nobody has.
InvalidCredentials == Resp("login", NoToken, 401, "Invalid credentials")

\* C14: a login with an identifier that matches no user, and a login with a
\* wrong password for an existing active user, get one and the same answer,
\* 401 "Invalid credentials", and change nothing; a login to an existing
\* inactive user is answered "Account is inactive" whatever the password,
\* so that answer tells an inactive account from no account.
C14_BadLoginsIndistinguishableForActive ==
    [][\A identifier \in AccountIdentifiers, password \in Passwords :
          Login(identifier, password) =>
              /\ Matches(identifier) = {} =>
                     resp' = InvalidCredentials /\ users' = users /\ issued' = issued
              /\ \A u \in Matches(identifier) :
                     /\ users[u].is_active
                            /\ users[u].hashed_password # Hash(password) =>
                            resp' = InvalidCredentials /\ users' = users /\ issued' = issued
                     /\ ~users[u].is_active =>
                            resp' = Resp("login", NoToken, 401, "Account is inactive")]_vars

\* C14 witness: a login with a bad identifier or a bad password was answered
\* "Invalid credentials" while the account existed and was active, and left
\* no trace in it; the answer does not say which of the two it was.
C14_Witness ==
    /\ resp = InvalidCredentials
    /\ users[Account].exists
    /\ users[Account].is_active
    /\ users[Account].last_login = NoTime
    /\ issued = {}

\* C14 as the specification states it: whatever the identifier, a password
\* that is not the right one gets the same "Invalid credentials" answer,
\* whether the identifier matches no user or an existing one.
C14_Original ==
    [][\A identifier \in AccountIdentifiers, password \in Passwords :
          /\ Login(identifier, password)
          /\ \A u \in Matches(identifier) : users[u].hashed_password # Hash(password)
          => resp' = InvalidCredentials]_vars

\* A correctly signed refresh token that jwt.decode still accepts.
ValidRefresh(token) ==
    /\ CorrectlySigned(token)
    /\ token.payload.exp >= now
    /\ TokenType(token) = "refresh"

\* The user a token's sub names is persisted.
SubjectExists(token) ==
    token.payload.sub \in UserIds /\ users[token.payload.sub].exists

IssuesPair ==
    /\ resp'.status = 200
    /\ TokenType(resp'.access_token) = "access"
    /\ TokenType(resp'.refresh_token) = "refresh"
    /\ issued' = issued \cup {resp'.access_token, resp'.refresh_token}

\* C17: refresh answers 401 and issues no token when the presented token is
\* malformed, wrongly signed, expired or not of type "refresh", when no user
\* exists for its sub, or when that user is inactive; it issues a new access
\* and refresh token exactly when all three checks pass.
C17_RefreshRejections ==
    [][\A token \in RefreshInputs :
          refresh_token(token) =>
              /\ ~ValidRefresh(token) =>
                     /\ resp'.status = 401
                     /\ resp'.detail = "Invalid or expired refresh token"
                     /\ IssuesNothing
              /\ ValidRefresh(token) /\ ~SubjectExists(token) =>
                     /\ resp'.status = 401
                     /\ resp'.detail = "User not found"
                     /\ IssuesNothing
              /\ ValidRefresh(token) /\ SubjectExists(token)
                     /\ ~users[token.payload.sub].is_active =>
                     /\ resp'.status = 401
                     /\ resp'.detail = "User account is inactive"
                     /\ IssuesNothing
              /\ ValidRefresh(token) /\ SubjectExists(token)
                     /\ users[token.payload.sub].is_active => IssuesPair
              /\ resp'.status \in {200, 401}]_vars

\* C17 witness: a refresh with a correctly signed, unexpired refresh token
\* was answered 401 "User not found" after its user was deleted.
C17_Witness ==
    /\ resp.op = "refresh"
    /\ resp.status = 401
    /\ resp.detail = "User not found"
    /\ ValidRefresh(resp.token)
    /\ ~SubjectExists(resp.token)

\* C18: the access token a successful refresh issues carries the role, the
\* roles and the superuser flag resolved from the user's row and role
\* assignments as persisted when the refresh runs, and is the very token a
\* login of that user would get at that moment, whatever the token of the
\* earlier login carried.
C18_RefreshResolvesCurrentRoles ==
    [][\A token \in RefreshInputs :
          refresh_token(token) /\ resp'.status = 200 =>
              LET row    == users[token.payload.sub]
                  claims == resp'.access_token.payload
              IN  /\ claims.sub = token.payload.sub
                  /\ claims.role = ExpectedRole(row)
                  /\ claims.roles = ExpectedRoles(row)
                  /\ claims.is_superuser = row.is_superuser
                  /\ resp'.access_token =
                         create_access_token(token.payload.sub, row.username,
                             row.email, row.is_superuser,
                             login_primary_role(row.is_superuser, row.roles),
                             login_role_codes(row.is_superuser, row.roles))]_vars

\* C18 witness: after a login that put role MEDICO in the access token, the
\* user's roles were changed, and a refresh issued a token of role RRHH
\* without MEDICO among its roles.
C18_Witness ==
    /\ resp.op = "refresh"
    /\ resp.status = 200
    /\ resp.access_token.payload.role = "RRHH"
    /\ resp.access_token.payload.roles = <<"RRHH">>
    /\ ~resp.access_token.payload.is_superuser
    /\ \E t \in issued :
           /\ TokenType(t) = "access"
           /\ t.payload.sub = resp.token.payload.sub
           /\ t.payload.iat = resp.token.payload.iat
           /\ t.payload.role = "MEDICO"
           /\ t.payload.roles = <<"MEDICO", "RRHH">>

----------------------------------------------------------------------------
(* Properties of a session that keeps refreshing (SpecReuse). *)

\* The first refresh token of the session, and a later one.
IsRefreshIssuedAt(token, t) ==
    TokenType(token) = "refresh" /\ token.payload.iat = t

\* C19: a refresh with a correctly signed refresh token that has not reached
\* its expiry, and whose user exists and is active, succeeds however many
\* refreshes that token has served before; the refresh writes nothing to
\* the blacklist, keeps every token issued so far, and every token gets the
\* same answer from verify_token and from the gate after it as before it.
C19_RefreshTokenReusable ==
    [][\A token \in issued :
          refresh_token(token) =>
              /\ ValidRefresh(token) /\ SubjectExists(token)
                     /\ users[token.payload.sub].is_active => IssuesPair
              /\ blacklist' = blacklist
              /\ issued \subseteq issued'
              /\ \A t \in issued :
                     /\ (verify_token(t, "refresh"))' = verify_token(t, "refresh")
                     /\ (get_current_user(t))' = get_current_user(t)]_vars

\* C19 witness: the refresh token of the login at second 0 served a refresh
\* at second 1 (the refresh token of second 1 exists, and the only login was
\* at second 0) and served another at second 2, and the access token of the
\* login still passes the gate.
C19_Witness ==
    /\ resp.op = "refresh"
    /\ resp.status = 200
    /\ IsRefreshIssuedAt(resp.token, 0)
    /\ now = 2
    /\ resp.access_token.payload.iat = 2
    /\ users[Account].last_login = 0
    /\ \E r \in issued : IsRefreshIssuedAt(r, 1)
    /\ \E a \in issued :
           /\ TokenType(a) = "access"
           /\ a.payload.iat = 0
           /\ get_current_user(a).status = 200

----------------------------------------------------------------------------
(* One login, statement by statement (SpecLoginSteps): the lookup and the   *)
(* checks, the last-login write, and the issue of the tokens are separate   *)
(* steps, each an await of LoginUserUseCase.execute, and the administration *)
(* of the same account commits between them.                                *)

Phones == {"3000000000", "3111111111"}

\* What update()'s SELECT gives in the request's session: the UserModel the
\* lookup loaded, still in the session's identity map with the attributes it
\* was loaded with, or, when that object was collected (the identity map
\* holds it weakly), a UserModel loaded from the row as it is now. A
\* database error is the third outcome.
UpdateOutcomes == {"identity_map", "reloaded", "db_error"}

\* UserRepositoryImpl._to_entity, then User.update_last_login at second t.
to_entity(u, t) ==
    [username        |-> users[u].username,
     email           |-> users[u].email,
     phone           |-> users[u].phone,
     hashed_password |-> users[u].hashed_password,
     is_active       |-> users[u].is_active,
     is_superuser    |-> users[u].is_superuser,
     updated_at      |-> t,
     last_login      |-> t,
     role_ids        |-> Codes(users[u].roles)]

\* UserRepositoryImpl._sync_roles: the role rows of role_ids. No role is
\* deactivated while a login is followed step by step.
sync_roles(role_ids) ==
    [i \in 1..Len(role_ids) |-> Role(role_ids[i], TRUE)]

\* What UserRepositoryImpl.update raises.
update_raises_nothing(u, outcome) == "None"

update_raises(u, outcome) ==
    IF ~users[u].exists THEN "ValueError"
    ELSE IF outcome = "db_error" THEN "Exception"
    ELSE "None"

\* The row after UserRepositoryImpl.update(user) committed or rolled back.
\* On the UserModel of the identity map the assignments of the unchanged
\* attributes and the clear and extend of the same roles change nothing, and
\* the UPDATE carries last_login and updated_at; on a reloaded UserModel
\* every attribute and the roles are set to the entity's.
update_row(u, user, outcome) ==
    IF ~users[u].exists \/ outcome = "db_error" THEN users[u]
    ELSE IF outcome = "identity_map"
    THEN [users[u] EXCEPT !.updated_at = user.updated_at,
                          !.last_login = user.last_login]
    ELSE [users[u] EXCEPT !.username        = user.username,
                          !.email           = user.email,
                          !.phone           = user.phone,
                          !.hashed_password = user.hashed_password,
                          !.is_active       = user.is_active,
                          !.is_superuser    = user.is_superuser,
                          !.updated_at      = user.updated_at,
                          !.last_login      = user.last_login,
                          !.roles           = sync_roles(user.role_ids)]

\* LoginUserUseCase.execute up to user.update_last_login().
LoginLookup(identifier, password) ==
    /\ inflight = NoRequest
    /\ Cardinality(issued) < MaxIssued
    /\ LET by_email == get_by_email(identifier)
           user     == IF by_email = NoUser THEN get_by_username(identifier)
                       ELSE by_email
       IN  IF user = NoUser
           THEN /\ resp' = Resp("login", NoToken, 401, "Invalid credentials")
                /\ UNCHANGED inflight
           ELSE IF ~users[user].is_active
           THEN /\ resp' = Resp("login", NoToken, 401, "Account is inactive")
                /\ UNCHANGED inflight
           ELSE IF ~pwd_verify(password, users[user].hashed_password)
           THEN /\ resp' = Resp("login", NoToken, 401, "Invalid credentials")
                /\ UNCHANGED inflight
           ELSE /\ inflight' = [pc     |-> "write",
                                id     |-> user,
                                user   |-> to_entity(user, now),
                                loaded |-> users[user]]
                /\ UNCHANGED resp
    /\ UNCHANGED <<minted, workers, now, ticks, config, users, blacklist,
                   last_cleanup, issued>>

\* await self.user_repository.update(user), and what routes.login answers
\* when it raises.
LoginWrite(outcome) ==
    /\ inflight.pc = "write"
    /\ LET raised == update_raises(inflight.id, outcome)
       IN  /\ users' = [users EXCEPT
                           ![inflight.id] = update_row(inflight.id, inflight.user, outcome)]
           /\ IF raised = "ValueError"
              THEN /\ resp' = Resp("login", NoToken, 401, "User not found")
                   /\ inflight' = NoRequest
              ELSE IF raised = "Exception"
              THEN /\ resp' = Resp("login", NoToken, 500, "Internal server error")
                   /\ inflight' = NoRequest
              ELSE /\ inflight' = [inflight EXCEPT !.pc = "written",
                                                   !.loaded = users[inflight.id]]
                   /\ UNCHANGED resp
    /\ UNCHANGED <<minted, workers, now, ticks, config, blacklist, last_cleanup,
                   issued>>

\* LoginUserUseCase.execute from get_user_roles to the TokenResponse.
LoginIssue ==
    /\ inflight.pc = "written"
    /\ LET user          == inflight.user
           user_roles    == get_user_roles(inflight.id)
           primary_role  == login_primary_role(user.is_superuser, user_roles)
           role_codes    == login_role_codes(user.is_superuser, user_roles)
           access_token  == create_access_token(inflight.id, user.username,
                               user.email, user.is_superuser,
                               primary_role, role_codes)
           issued_refresh == create_refresh_token(inflight.id)
       IN  /\ issued' = issued \cup {access_token, issued_refresh}
           /\ resp' = [Resp("login", NoToken, 200, "") EXCEPT
                           !.access_token = access_token,
                           !.refresh_token = issued_refresh]
    /\ inflight' = NoRequest
    /\ UNCHANGED <<minted, workers, now, ticks, config, users, blacklist,
                   last_cleanup>>

\* UpdateUserUseCase.execute with a new phone, committed.
UpdateProfile(u, phone) ==
    /\ users[u].exists
    /\ users[u].phone # phone
    /\ users' = [users EXCEPT ![u].phone = phone, ![u].updated_at = now]
    /\ UNCHANGED <<inflight, minted, workers, now, ticks, config, blacklist,
                   last_cleanup, issued, resp>>

\* The login that is followed is the account's first.
LoginLookupFirst(password) ==
    /\ issued = {}
    /\ LoginLookup(users[Account].email, password)

NextLoginSteps ==
    \/ TickLong
    \/ \E password \in Passwords : LoginLookupFirst(password)
    \/ \E outcome \in UpdateOutcomes : LoginWrite(outcome)
    \/ LoginIssue
    \/ \E code \in RoleCodes : AssignRole(Account, Role(code, TRUE))
    \/ \E code \in RoleCodes : RemoveRole(Account, code)
    \/ \E phone \in Phones : UpdateProfile(Account, phone)
    \/ DeleteUser(Account)

SpecLoginSteps == Init /\ [][NextLoginSteps]_vars

----------------------------------------------------------------------------
(* Properties of a login followed step by step (SpecLoginSteps). *)

\* The last-login write of the login in flight is in the persisted row.
LastLoginPersisted ==
    users[inflight.id].last_login = inflight.user.last_login

\* C15: within a login the last-login write has completed when the tokens
\* are issued: tokens are issued only by a login whose update(user) returned
\* and left its last_login in the row; and when update(user) raises (the
\* database fails, or the row is gone) the login ends there with an error
\* answer that carries no token, and no token is issued.
C15_WriteBeforeTokens ==
    [][/\ issued' # issued =>
              /\ inflight.pc = "written"
              /\ LastLoginPersisted
       /\ \A outcome \in UpdateOutcomes :
              /\ LoginWrite(outcome)
              /\ (outcome = "db_error" \/ ~users[inflight.id].exists)
              => /\ inflight' = NoRequest
                 /\ resp'.op = "login"
                 /\ resp'.status \in {401, 500}
                 /\ resp'.access_token = NoToken
                 /\ resp'.refresh_token = NoToken
                 /\ issued' = issued
                 /\ users' = users]_vars

\* C15 witness: the first login's write failed in the database: the answer
\* is the 500, no token exists and the row has no last_login.
C15_Witness ==
    /\ resp = Resp("login", NoToken, 500, "Internal server error")
    /\ inflight = NoRequest
    /\ issued = {}
    /\ users[Account].exists
    /\ users[Account].last_login = NoTime

\* The columns and roles of a row other than last_login and updated_at.
Others(row) ==
    [row EXCEPT !.last_login = NoTime, !.updated_at = NoTime]

\* C16 as the specification states it: the write of a successful login
\* leaves every column of the row but last_login and updated_at, and the
\* roles, as they were in the row when the write began, also when an
\* assignment, a removal or a profile update committed after the lookup.
C16_LoginWritesOnlyLastLogin ==
    [][\A outcome \in UpdateOutcomes :
          LoginWrite(outcome) =>
              Others(users'[inflight.id]) = Others(users[inflight.id])]_vars

\* C16, the divergence reached: the login's update(user) returned, and the
\* row it found differs from the row it left in its roles or its phone.
C16_Witness ==
    /\ inflight.pc = "written"
    /\ Others(inflight.loaded) # Others(users[inflight.id])

----------------------------------------------------------------------------
(* The three writings of the RoleResolver side by side (SpecResolver): the *)
(* account is a superuser or not and holds any list of up to MaxRoles      *)
(* roles, each active or not, and each code path resolves its role and     *)
(* roles from it.                                                          *)

\* The codes of the roles table: the two the gates know and another one.
ResolverCodes == RoleCodes \cup {"PACIENTE"}

\* The lists get_user_roles can return: no code twice.
RoleLists ==
    {rs \in UNION {[1..n -> {Role(code, active) : code \in ResolverCodes,
                                                   active \in BOOLEAN}] :
                      n \in 0..MaxRoles} :
        \A i, j \in 1..Len(rs) : rs[i].code = rs[j].code => i = j}

InitResolver ==
    /\ now = 0
    /\ ticks = 0
    /\ secret_key = SECRET_KEY
    /\ access_token_expire_minutes = ACCESS_TOKEN_EXPIRE_MINUTES
    /\ refresh_token_expire_days = REFRESH_TOKEN_EXPIRE_DAYS
    /\ \E is_superuser \in BOOLEAN, user_roles \in RoleLists :
           users = [SeedUsers EXCEPT ![Account].is_superuser = is_superuser,
                                     ![Account].roles = user_roles]
    /\ blacklist = {}
    /\ last_cleanup = 0
    /\ issued = {}
    /\ resp = Resp("start", NoToken, 0, "")
    /\ minted = {}
    /\ lock = NoThread
    /\ frame = [th \in Threads |-> IdleFrame]
    /\ model_set = {}
    /\ calls = 0
    /\ inflight = NoRequest
    /\ token_blacklist_instance = NoInstance
    /\ instances = <<>>

\* The pair a code path resolves.
Resolved(primary_role, role_codes) == [role |-> primary_role, roles |-> role_codes]

\* LoginUserUseCase.execute, lines 60-84.
ResolveAtLogin(u) ==
    /\ resp' = [Resp("login_user", NoToken, 0, u) EXCEPT !.payload =
                   Resolved(login_primary_role(users[u].is_superuser, get_user_roles(u)),
                            login_role_codes(users[u].is_superuser, get_user_roles(u)))]
    /\ UNCHANGED <<inflight, minted, workers, now, ticks, config, users, blacklist,
                   last_cleanup, issued>>

\* routes.refresh_token, lines 264-288.
ResolveAtRefresh(u) ==
    /\ resp' = [Resp("refresh_token", NoToken, 0, u) EXCEPT !.payload =
                   Resolved(refresh_primary_role(users[u].is_superuser, get_user_roles(u)),
                            refresh_role_codes(users[u].is_superuser, get_user_roles(u)))]
    /\ UNCHANGED <<inflight, minted, workers, now, ticks, config, users, blacklist,
                   last_cleanup, issued>>

\* routes._build_user_response_with_roles, lines 85-102.
ResolveAtResponse(u) ==
    /\ resp' = [Resp("_build_user_response_with_roles", NoToken, 0, u) EXCEPT !.payload =
                   Resolved(build_primary_role(users[u].is_superuser, get_user_roles(u)),
                            build_role_codes(users[u].is_superuser, get_user_roles(u)))]
    /\ UNCHANGED <<inflight, minted, workers, now, ticks, config, users, blacklist,
                   last_cleanup, issued>>

NextResolver ==
    \/ ResolveAtLogin(Account)
    \/ ResolveAtRefresh(Account)
    \/ ResolveAtResponse(Account)

SpecResolver == InitResolver /\ [][NextResolver]_vars

(* Properties of the three resolvers (SpecResolver). *)

ResolverOps == {"login_user", "refresh_token", "_build_user_response_with_roles"}

\* C23: whatever the superuser flag and the list of assigned roles with
\* their active flags, login, refresh and the user-response builder resolve
\* the same primary role and the same list of role codes: the pair any of
\* them has just answered is the pair each of the three computes.
C23_ResolversAgree ==
    LET is_superuser == users[Account].is_superuser
        user_roles   == get_user_roles(Account)
        at_login     == Resolved(login_primary_role(is_superuser, user_roles),
                                 login_role_codes(is_superuser, user_roles))
        at_refresh   == Resolved(refresh_primary_role(is_superuser, user_roles),
                                 refresh_role_codes(is_superuser, user_roles))
        at_response  == Resolved(build_primary_role(is_superuser, user_roles),
                                 build_role_codes(is_superuser, user_roles))
    IN  /\ at_login = at_refresh
        /\ at_refresh = at_response
        /\ resp.op \in ResolverOps => resp.payload = at_login

\* C23 witness: the response builder resolved a superuser who holds an
\* inactive RRHH and then an active MEDICO: primary role RRHH, role codes
\* MEDICO and the appended RRHH.
C23_Witness ==
    /\ resp.op = "_build_user_response_with_roles"
    /\ users[Account].is_superuser
    /\ users[Account].roles = <<Role("RRHH", FALSE), Role("MEDICO", TRUE)>>
    /\ resp.payload = Resolved("RRHH", <<"MEDICO", "RRHH">>)

----------------------------------------------------------------------------
(* The expiry helpers of the JWTHandler (SpecExpiry): tokens are minted as *)
(* in SpecCodec, and get_token_expiration and is_token_expired are called  *)
(* on them in a process whose local time is west of UTC, UTC, or east of   *)
(* it, at the start of a second or later in it.                            *)

\* The local time zones of the process, in seconds from UTC.
UtcOffsets == {-5 * 3600, 0, 3600}

\* jwt_handler.get_token_expiration(token)
GetTokenExpiration(token, utc_offset) ==
    /\ resp' = [Resp("get_token_expiration", token, 0, "") EXCEPT
                    !.payload = get_token_expiration(token, utc_offset)]
    /\ UNCHANGED <<inflight, minted, workers, now, ticks, config, users, blacklist,
                   last_cleanup, issued>>

\* jwt_handler.is_token_expired(token)
IsTokenExpired(token, utc_offset, late) ==
    /\ resp' = [Resp("is_token_expired", token, 0, "") EXCEPT
                    !.ret_bool = is_token_expired(token, utc_offset, late),
                    !.exp_int = utc_offset]
    /\ UNCHANGED <<inflight, minted, workers, now, ticks, config, users, blacklist,
                   last_cleanup, issued>>

NextExpiry ==
    \/ Tick
    \/ \E args \in AccessArgs : IssueAccess(args)
    \/ IssueRefresh("u1")
    \/ \E token \in CodecTokens, utc_offset \in UtcOffsets :
           GetTokenExpiration(token, utc_offset)
    \/ \E token \in CodecTokens, utc_offset \in UtcOffsets, late \in BOOLEAN :
           IsTokenExpired(token, utc_offset, late)

SpecExpiry == InitCodec /\ [][NextExpiry]_vars

(* Properties of the expiry helpers (SpecExpiry). *)

\* C24 as the specification states it: for every token and every clock
\* value get_token_expiration gives None exactly when decode_token gives
\* None, and is_token_expired gives True exactly when decode_token gives
\* None, so a token that decodes is never reported as expired.
C24_ExpiryFollowsDecode ==
    [][\A token \in CodecTokens, utc_offset \in UtcOffsets :
          /\ GetTokenExpiration(token, utc_offset) =>
                 (resp'.payload = None <=> decode_token(token) = None)
          /\ \A late \in BOOLEAN :
                 IsTokenExpired(token, utc_offset, late) =>
                     (resp'.ret_bool <=> decode_token(token) = None)]_vars

\* C24, the divergence reached: is_token_expired answered True for an
\* access token of the default lifetime that decode_token accepts, in the
\* second it was minted in.
C24_Witness ==
    /\ resp.op = "is_token_expired"
    /\ resp.ret_bool
    /\ access_token_expire_minutes = ACCESS_TOKEN_EXPIRE_MINUTES
    /\ decode_token(resp.token) # None
    /\ resp.token.payload.iat = now

----------------------------------------------------------------------------
(* POST /auth/validate on its own (SpecValidate): the JWTHandler mints     *)
(* tokens from any subject string, with any of the lifetimes of SpecCodec, *)
(* and the route is given these, their copies signed with another key, the *)
(* attacker's strings and a token of another issuer that holds the key.    *)

\* The user_id strings create_access_token and create_refresh_token are
\* called with: a user's id, the empty string, and a string that is no UUID.
ValidateSubjects == {"u1", "", "not-a-uuid"}

ValidateArgs ==
    [user_id      : ValidateSubjects,
     username     : {"jdoe"},
     email        : {"jdoe@clinic.test"},
     is_superuser : BOOLEAN,
     role         : {"MEDICO"},
     roles        : {<<"MEDICO">>}]

\* A correctly signed token that carries no sub claim.
SublessToken ==
    JwtEncode([type |-> "access", exp |-> 2000000000, iat |-> 0], SECRET_KEY)

ValidateInputs == CodecTokens \cup {SublessToken}

\* routes.validate_token: the use case's answer is returned with 200; the
\* route's own except finds nothing to catch.
Validate(token) ==
    /\ LET validation == validate(token)
       IN  resp' = [Resp("validate", token, 200, validation.message) EXCEPT
                        !.payload = validation]
    /\ UNCHANGED <<inflight, minted, workers, now, ticks, config, users, blacklist,
                   last_cleanup, issued>>

NextValidate ==
    \/ Tick
    \/ \E args \in ValidateArgs : IssueAccess(args)
    \/ \E user_id \in ValidateSubjects : IssueRefresh(user_id)
    \/ \E token \in ValidateInputs : Validate(token)

SpecValidate == InitCodec /\ [][NextValidate]_vars

(* Properties of POST /auth/validate (SpecValidate). *)

\* The token carries a subject: a sub claim that is not the empty string.
HasSubject(token) ==
    token.wellformed /\ Get(token.payload, "sub", "") # ""

\* C21: validate answers every token with 200 and a TokenValidationResponse,
\* and raises nothing; valid is false whenever decode_token gives None,
\* whenever the payload has no subject, and whenever UUID(sub) raises; valid
\* is true only for a token that decode_token accepts and that carries a
\* subject, and then the response carries the token's claims.
C21_ValidateNeverFailsOutward ==
    [][\A token \in ValidateInputs :
          Validate(token) =>
              /\ resp'.status = 200
              /\ resp'.payload.valid \in BOOLEAN
              /\ JwtDecode(token, secret_key, now) = None => ~resp'.payload.valid
              /\ ~HasSubject(token) => ~resp'.payload.valid
              /\ HasSubject(token) /\ token.payload.sub \notin UuidStrings =>
                     ~resp'.payload.valid
              /\ resp'.payload.valid =>
                     /\ JwtDecode(token, secret_key, now) # None
                     /\ HasSubject(token)
                     /\ resp'.payload.user_id = token.payload.sub]_vars

\* C21 witness: a correctly signed, unexpired token whose subject is no UUID
\* was answered 200 with valid false: UUID(user_id) raised inside execute.
C21_Witness ==
    /\ resp.op = "validate"
    /\ resp.status = 200
    /\ ~resp.payload.valid
    /\ resp.payload.message = "Token validation failed"
    /\ JwtDecode(resp.token, secret_key, now) # None
    /\ resp.token.payload.sub = "not-a-uuid"

----------------------------------------------------------------------------
(* The blacklist over a long time (SpecRetention): the account logs in and *)
(* out, tokens are added, removed and cleared directly, and the clock      *)
(* moves past the tokens' expiry and past the cleanup interval.            *)

NextRetention ==
    \/ Tick
    \/ TickLong
    \/ Login(users[Account].email, "Correct1!")
    \/ \E token \in issued : Logout(token)
    \/ AddToken(ForgedToken)
    \/ \E token \in Presentable : GateCheck(token)
    \/ \E token \in Presentable : RemoveToken(token)
    \/ Clear

SpecRetention == Init /\ [][NextRetention]_vars

(* Properties of the blacklist over a long time (SpecRetention). *)

\* The step is a remove_token or a clear.
Removes == Clear \/ \E token \in Presentable : RemoveToken(token)

\* C22: an entry leaves the blacklist only by remove_token of that token or
\* by clear. Every other step (the clock passing a token's exp, an add_token
\* or a logout whose _auto_cleanup finds the interval elapsed, a login, a
\* gate check) keeps every entry: size does not decrease and the gate goes
\* on rejecting every token of the blacklist as revoked.
C22_EntriesStayUntilRemoved ==
    [][/\ \A token \in Presentable :
              RemoveToken(token) => blacklist \ {token} \subseteq blacklist'
       /\ ~Removes =>
              /\ blacklist \subseteq blacklist'
              /\ Cardinality(blacklist') >= Cardinality(blacklist)
              /\ \A t \in blacklist :
                     /\ (is_blacklisted(t))'
                     /\ (get_current_user(t))' =
                            Outcome(401, "Token has been revoked", None)]_vars

\* C22 witness: a logout ran _auto_cleanup with the interval elapsed (the
\* cleanup time moved to the present), and the blacklist still holds the two
\* tokens added before, one of them an access token whose exp has passed.
C22_Witness ==
    /\ resp.op = "logout"
    /\ resp.status = 200
    /\ last_cleanup = now
    /\ now > CleanupIntervalSeconds
    /\ Cardinality(blacklist) = 3
    /\ ForgedToken \in blacklist
    /\ \E t \in blacklist :
           /\ CorrectlySigned(t)
           /\ t.payload.exp < now
           /\ t # resp.token

----------------------------------------------------------------------------
(* get_token_blacklist under threads (SpecSingleton): dependencies.        *)
(* get_blacklist is a plain def, which FastAPI runs in its thread pool, so *)
(* the requests' calls of get_token_blacklist run in different threads.    *)
(* A step is one statement of the function, and then the request's call on *)
(* the store it was given.  model_set is the set the completed add_token   *)
(* calls amount to.                                                        *)

\* What a request does with its store: logout adds, the gate asks.
SingletonOps == {"add_token", "is_blacklisted"}

\* A request arrives and its get_blacklist dependency is called.
GetBlacklist(th, op, token) ==
    /\ frame[th].pc = "idle"
    /\ calls < MaxCalls
    /\ calls' = calls + 1
    /\ frame' = [frame EXCEPT ![th] = Frame("test", op, token)]
    /\ UNCHANGED <<token_blacklist_instance, instances, inflight, minted, lock,
                   model_set, now, ticks, config, users, blacklist, last_cleanup,
                   issued, resp>>

\* if _token_blacklist_instance is None:
TestNone(th) ==
    /\ frame[th].pc = "test"
    /\ frame' = [frame EXCEPT
                    ![th].found = (token_blacklist_instance = NoInstance),
                    ![th].pc = IF token_blacklist_instance = NoInstance
                               THEN "create" ELSE "return"]
    /\ UNCHANGED <<token_blacklist_instance, instances, inflight, minted, lock,
                   model_set, calls, now, ticks, config, users, blacklist,
                   last_cleanup, issued, resp>>

\* _token_blacklist_instance = TokenBlacklist()
Construct(th) ==
    /\ frame[th].pc = "create"
    /\ instances' = Append(instances, {})
    /\ token_blacklist_instance' = Len(instances) + 1
    /\ frame' = [frame EXCEPT ![th].pc = "return"]
    /\ UNCHANGED <<inflight, minted, lock, model_set, calls, now, ticks, config,
                   users, blacklist, last_cleanup, issued, resp>>

\* return _token_blacklist_instance: ret_int is the instance handed out.
ReturnInstance(th) ==
    /\ frame[th].pc = "return"
    /\ frame' = [frame EXCEPT ![th].ret_int = token_blacklist_instance,
                              ![th].pc = "use"]
    /\ UNCHANGED <<token_blacklist_instance, instances, inflight, minted, lock,
                   model_set, calls, now, ticks, config, users, blacklist,
                   last_cleanup, issued, resp>>

\* The request calls add_token or is_blacklisted on the store it was given.
UseStore(th) ==
    /\ frame[th].pc = "use"
    /\ LET op    == frame[th].op
           token == frame[th].token
           store == frame[th].ret_int
       IN  IF op = "add_token"
           THEN /\ instances' = [instances EXCEPT ![store] = @ \cup {token}]
                /\ model_set' = model_set \cup {token}
                /\ resp' = [Resp(op, token, 0, "") EXCEPT !.ret_int = store]
           ELSE /\ resp' = [Resp(op, token, 0, "") EXCEPT
                                !.ret_bool = (token \in instances[store]),
                                !.exp_bool = (token \in model_set),
                                !.ret_int  = store]
                /\ UNCHANGED <<instances, model_set>>
    /\ frame' = [frame EXCEPT ![th] = IdleFrame]
    /\ UNCHANGED <<token_blacklist_instance, inflight, minted, lock, calls, now,
                   ticks, config, users, blacklist, last_cleanup, issued>>

NextSingleton ==
    \/ \E th \in Threads, op \in SingletonOps :
           \E token \in CallTokens(th, op) : GetBlacklist(th, op, token)
    \/ \E th \in Threads : TestNone(th)
    \/ \E th \in Threads : Construct(th)
    \/ \E th \in Threads : ReturnInstance(th)
    \/ \E th \in Threads : UseStore(th)

SpecSingleton == InitStore /\ [][NextSingleton]_vars

(* Properties of get_token_blacklist under threads (SpecSingleton). *)

\* The thread holds the store get_token_blacklist returned to it.
HoldsStore(th) == frame[th].pc = "use"

\* C25 as the specification states it: every call of get_token_blacklist
\* returns the same instance (the stores the threads hold and the store of
\* the last answered request are one and the same), so is_blacklisted
\* answers True for every token that a completed add_token added.
C25_OneStoreForAll ==
    /\ \A th1, th2 \in Threads :
           HoldsStore(th1) /\ HoldsStore(th2) =>
               frame[th1].ret_int = frame[th2].ret_int
    /\ \A th \in Threads :
           HoldsStore(th) /\ resp.op \in SingletonOps =>
               frame[th].ret_int = resp.ret_int
    /\ resp.op = "is_blacklisted" => (resp.ret_bool <=> resp.exp_bool)

\* C25, the divergence reached: two instances exist, and is_blacklisted
\* answered False for a token that a completed add_token had added.
C25_Witness ==
    /\ resp.op = "is_blacklisted"
    /\ resp.token \in model_set
    /\ ~resp.ret_bool
    /\ Len(instances) = 2

----------------------------------------------------------------------------
(* Logout requests side by side (SpecLogoutRace): a logout is the          *)
(* dependency get_current_user and then the route body, and other requests *)
(* run between the two.  The requests present the tokens the account's     *)
(* logins handed out, the same token too.                                  *)

\* get_current_user for POST /auth/logout: a rejected request ends here.
LogoutGate(th, token) ==
    /\ frame[th].pc = "idle"
    /\ LET current_user == get_current_user(token)
       IN  IF current_user.status # 200
           THEN /\ resp' = Resp("logout", token, current_user.status, current_user.detail)
                /\ UNCHANGED frame
           ELSE /\ frame' = [frame EXCEPT ![th] =
                                [Frame("execute", "logout", token) EXCEPT
                                     !.before = blacklist]]
                /\ UNCHANGED resp
    /\ UNCHANGED <<token_blacklist_instance, instances, inflight, minted, lock,
                   model_set, calls, now, ticks, config, users, blacklist,
                   last_cleanup, issued>>

\* routes.logout's body: LogoutUserUseCase.execute(token, user_id).  exp_bool
\* notes that the token was in the blacklist already.
LogoutExecute(th) ==
    /\ frame[th].pc = "execute"
    /\ LET token   == frame[th].token
           user_id == Get(token.payload, "sub", "")
       IN  IF user_id = ""
           THEN /\ resp' = Resp("logout", token, 400, "User ID must be a non-empty string")
                /\ UNCHANGED <<blacklist, last_cleanup>>
           ELSE /\ blacklist' = add_token_set(token)
                /\ last_cleanup' = auto_cleanup_last
                /\ resp' = [Resp("logout", token, 200, "Successfully logged out") EXCEPT
                                !.exp_bool = is_blacklisted(token)]
    /\ frame' = [frame EXCEPT ![th] = IdleFrame]
    /\ UNCHANGED <<token_blacklist_instance, instances, inflight, minted, lock,
                   model_set, calls, now, ticks, config, users, issued>>

NextLogoutRace ==
    \/ Tick
    \/ Login(users[Account].email, "Correct1!")
    \/ \E th \in Threads, token \in issued : LogoutGate(th, token)
    \/ \E th \in Threads : LogoutExecute(th)

SpecLogoutRace == Init /\ [][NextLogoutRace]_vars

(* Properties of logout requests side by side (SpecLogoutRace). *)

\* C26: however the gate checks and the insertions of logout requests are
\* interleaved, every request that passed the gate is answered 200, also
\* when another request has inserted its token in between; its insertion
\* leaves exactly the blacklist with that token in it, so the first
\* insertion of a token makes the size grow by one and a later one changes
\* nothing, and no other entry changes.
C26_ConcurrentLogoutsInsertOnce ==
    [][\A th \in Threads :
          LogoutExecute(th) =>
              LET token == frame[th].token
              IN  /\ token \notin frame[th].before
                  /\ resp'.status = 200
                  /\ resp'.token = token
                  /\ blacklist' = blacklist \cup {token}
                  /\ Cardinality(blacklist') =
                         Cardinality(blacklist) + (IF token \in blacklist THEN 0 ELSE 1)
                  /\ \A t \in issued \ {token} :
                         (is_blacklisted(t))' = is_blacklisted(t)]_vars

\* C26 witness: two logout requests passed the gate with the same token;
\* the second insertion found the token there, was answered 200, and the
\* blacklist holds that token and the one of an earlier logout, no more.
C26_Witness ==
    /\ resp.op = "logout"
    /\ resp.status = 200
    /\ resp.exp_bool
    /\ \A th \in Threads : frame[th].pc = "idle"
    /\ resp.token \in blacklist
    /\ Cardinality(blacklist) = 2

----------------------------------------------------------------------------
(* The gate against accounts that change (SpecStaleClaims): the account    *)
(* logs in once, and its tokens are presented to the three gates while the      *)
(* account is deactivated, deleted, or has roles assigned and removed,     *)
(* while the clock moves and tokens are revoked by logout.                 *)

NextStaleClaims ==
    \/ Tick
    \/ FirstLogin
    \/ \E token \in issued : GateCheck(token)
    \/ \E token \in issued : SuperuserCheck(token)
    \/ \E token \in issued : RrhhCheck(token)
    \/ \E token \in issued : Logout(token)
    \/ \E code \in RoleCodes : AssignRole(Account, Role(code, TRUE))
    \/ \E code \in RoleCodes : RemoveRole(Account, code)
    \/ \E active \in BOOLEAN : SetUserActive(Account, active)
    \/ DeleteUser(Account)

SpecStaleClaims == InitAccounts /\ [][NextStaleClaims]_vars

(* Properties of the gate against accounts that change (SpecStaleClaims). *)

\* The three gates' answers for a token.
ThreeGates(token) ==
    <<get_current_user(token), get_current_superuser(token),
      get_current_rrhh_user(token)>>

\* The user of the token is no longer what the token says: deleted,
\* deactivated, or without the role the token names as primary.
UserChanged(token) ==
    \/ ~users[token.payload.sub].exists
    \/ ~users[token.payload.sub].is_active
    \/ /\ ~token.payload.is_superuser
       /\ ~HoldsCode(users[token.payload.sub].roles, token.payload.role)

\* C27: the gates' answers for a token depend on the token, the blacklist
\* and the clock only: a step that leaves the clock and the blacklist as
\* they are (a deactivation, a deletion, a role assigned or removed) leaves
\* the three answers for every token as they were; and an unexpired access
\* token that is not revoked is accepted with exactly the claims it carries,
\* passes the superuser gate exactly when its is_superuser claim is true
\* and the RRHH gate exactly when its role claim is "RRHH".
C27_GateReadsTokenOnly ==
    [][\A token \in issued :
          /\ now' = now /\ blacklist' = blacklist =>
                 ThreeGates(token)' = ThreeGates(token)
          /\ ValidAccess(token) /\ ~is_blacklisted(token) =>
                 /\ get_current_user(token) = Outcome(200, "", token.payload)
                 /\ get_current_superuser(token).status =
                        (IF token.payload.is_superuser THEN 200 ELSE 403)
                 /\ get_current_rrhh_user(token).status =
                        (IF token.payload.role = "RRHH" THEN 200 ELSE 403)]_vars

\* C27 witness: a token whose primary role is RRHH was answered 200 by the
\* RRHH gate with its claims, and is answered so now, while its user is
\* deleted, deactivated or no longer holds RRHH.
C27_Witness ==
    /\ resp.op = "get_current_rrhh_user"
    /\ resp.status = 200
    /\ resp.payload = resp.token.payload
    /\ resp.payload.role = "RRHH"
    /\ ~resp.payload.is_superuser
    /\ UserChanged(resp.token)
    /\ ~HoldsCode(users[Account].roles, "RRHH")
    /\ ~users[Account].exists
    /\ get_current_rrhh_user(resp.token).status = 200

----------------------------------------------------------------------------
(* The requests of one account (SpecRequests): login, refresh, logout,     *)
(* validate and the three gates, with the tokens handed out so far and the *)
(* attacker's strings, as the clock moves.                                 *)

NextRequests ==
    \/ Tick
    \/ \E identifier \in AccountIdentifiers, password \in Passwords :
           Login(identifier, password)
    \/ \E token \in RefreshInputs : Refresh(token)
    \/ \E token \in RefreshInputs : GateCheck(token)
    \/ \E token \in RefreshInputs : SuperuserCheck(token)
    \/ \E token \in RefreshInputs : RrhhCheck(token)
    \/ \E token \in RefreshInputs : Logout(token)
    \/ \E token \in RefreshInputs : Validate(token)

SpecRequests == Init /\ [][NextRequests]_vars

(* Properties of the requests of one account (SpecRequests). *)

\* The access token `a` and the refresh token `r` were issued as one pair.
SamePair(a, r) ==
    /\ TokenType(a) = "access"
    /\ TokenType(r) = "refresh"
    /\ a.payload.sub = r.payload.sub
    /\ a.payload.iat = r.payload.iat

\* C28 as the specification states it: after a logout revoked the access
\* token of a pair, a refresh with the pair's refresh token, unexpired and
\* of an active user, succeeds, and the access token it yields is accepted
\* by get_current_user.
C28_RefreshSurvivesLogout ==
    [][\A r \in issued :
          /\ Refresh(r)
          /\ ValidRefresh(r) /\ SubjectExists(r) /\ users[r.payload.sub].is_active
          /\ \E a \in blacklist : SamePair(a, r)
          => /\ IssuesPair
             /\ \E new \in issued' :
                    /\ new = resp'.access_token
                    /\ (get_current_user(new))'.status = 200]_vars

\* C28, the divergence reached: a refresh was answered 200 with an access
\* token that is in the blacklist, which the gate rejects as revoked.
C28_Witness ==
    /\ resp.op = "refresh"
    /\ resp.status = 200
    /\ is_blacklisted(resp.access_token)
    /\ SamePair(resp.access_token, resp.token)
    /\ get_current_user(resp.access_token) =
           Outcome(401, "Token has been revoked", None)

(* Properties of POST /auth/validate among the other requests             *)
(* (SpecRequests).                                                         *)

\* A token that decodes under the server's key and names a UUID subject.
DecodesWithUuid(token) ==
    /\ ~Falsy(decode_token(token))
    /\ Get(decode_token(token), "sub", "") \in UuidStrings

OtherRequest ==
    \/ \E identifier \in AccountIdentifiers, password \in Passwords :
           Login(identifier, password)
    \/ \E token \in RefreshInputs : Refresh(token)
    \/ \E token \in RefreshInputs : Validate(token)
    \/ \E token \in RefreshInputs : GateCheck(token)
    \/ \E token \in RefreshInputs : SuperuserCheck(token)
    \/ \E token \in RefreshInputs : RrhhCheck(token)

\* C30: among the requests only a successful logout changes the blacklist.
\* A login, a refresh, a validation, a gate check (accepting or rejecting)
\* and a logout that is not answered 200 leave the set of revoked tokens
\* as it was; a logout answered 200 adds the presented token and neither
\* adds nor removes any other entry.
C30_OnlyLogoutChangesStore ==
    [][/\ OtherRequest => blacklist' = blacklist
       /\ \A token \in RefreshInputs :
              Logout(token)
              => IF resp'.status = 200
                 THEN blacklist' = blacklist \cup {token}
                 ELSE blacklist' = blacklist]_vars

\* A logout with an already revoked token has just been rejected, the
\* blacklist holds exactly that token, and another access token of the same
\* user is still accepted by the gate.
C30_Witness ==
    /\ resp.op = "logout"
    /\ resp.status = 401
    /\ blacklist = {resp.token}
    /\ \E t \in issued \ blacklist :
           /\ TokenType(t) = "access"
           /\ t.payload.sub = resp.token.payload.sub
           /\ get_current_user(t).status = 200

====
